---- MODULE Spec2Model ----
\* Voyage-profit optimiser of slashops: the fleet assignment solver
\* (computeBestPortfolioSummary + hungarian) and the per-pair grid search
\* (computeBestPair) of src/src/app/api/chat/route.ts, and the exported
\* functions of src/src/calculator/laycan.ts and weight.ts; hungarian
\* followed loop iteration by loop iteration; the portfolio search of
\* src/src/app/api/recommendation/route.ts; the manual calculation page,
\* the chat page and the recommendation page.
\*
\* Numbers are integers.  Indices are 0-based as in the source; hungarian
\* keeps its internal 1-based arrays.  The fleet solver counts money in
\* 1000 dollars, the pair search in dollars.
EXTENDS Integers, Sequences, FiniteSets, TLC

\* ---------------------------------------------------------------- bounds
\* Largest pair-result matrix, in cells (vessels x cargos).
MaxCells == 6
\* Largest number of vessels, and of cargos.
MaxSide == 3
\* Largest cost matrix handed to hungarian, in cells (rows x columns).
MaxMatrixCells == 9
\* Longest voyage list of the manual page.
MaxVoyages == 2
\* Longest conversation of the chat page, in messages.
MaxMessages == 4

\* ------------------------------------------------------- program constants
\* Number.POSITIVE_INFINITY of hungarian's minv / delta.
Infinity == 2147483647
\* big = maxProfit + 1_000_000_000.  The solver's money unit is 1000
\* dollars, so that the potentials of hungarian stay within 32 bits.
NullPenalty == 1000000

\* A PairResult as the solver sees it: null, or a finite adjusted profit.
NullPair == [isNull |-> TRUE, adjustedProfit |-> 0]
Pair(x) == [isNull |-> FALSE, adjustedProfit |-> x]

\* Adjusted profits the matrices are drawn from, in 1000 dollars: an
\* extreme loss (below -1e9 dollars), the boundary 0, and two positive
\* values.
ProfitValues == {-1000001, 0, 1, 5}
PairValues == {NullPair} \cup {Pair(x) : x \in ProfitValues}

VARIABLES
  vesselCount,     \* vesselsParsed.length
  cargoCount,      \* cargosParsed.length
  pairResults,     \* pairResults[i][j], i in 0..n-1, j in 0..cargos-1
  pc,              \* position inside computeBestPortfolioSummary
  maxProfit,       \* largest positive finite adjusted profit (0 if none)
  cost,            \* padded cost matrix, rows 1..n, columns 1..m
  assignment,      \* hungarian(cost): row index -> column index or -1
  solverRuns,      \* number of hungarian calls made
  vi,              \* loop index i of the post-filter loop
  chosen,          \* chosen[], one entry per vessel processed
  totalProfit,
  usedCargoIds,
  unassignedCargos,
  reply,           \* "none" for the empty reply, "portfolio" otherwise
  \* --- one computeBestPair call
  vessel,          \* params.vessel
  cargo,           \* params.cargo
  ppc,             \* position inside computeBestPair
  laycanEvaluation,
  qtyValues,       \* quantity axis of the grid
  qi,              \* index into qtyValues (1-based)
  bi,              \* index of ballastBlend in blendValues (0-based)
  li,              \* index of ladenBlend in blendValues (0-based)
  best,            \* let best: PairResult | null
  calcCount,       \* grid points evaluated (calculateFreight calls)
  point,           \* candidate PairResult of the grid point evaluated last
  result,          \* value returned by computeBestPair
  \* --- one call of a calculator function
  fn,              \* name of the function called
  args,            \* its arguments
  ret              \* the value it returned

VARIABLES
  \* --- one call of hungarian, followed loop iteration by loop iteration
  hSite,           \* the call site the matrix comes from
  hCost,           \* cost[i][j], rows 1..hN, columns 1..hM
  hN,              \* n = cost.length
  hM,              \* m = cost[0]?.length ?? 0
  hI,              \* row i of the outer for loop
  hState,          \* u, v, p, way, minv, used, j0
  hPc,             \* position inside hungarian
  hIterations,     \* do-while iterations this call has executed so far
  hAssignment      \* the array hungarian returns

VARIABLES
  \* --- one request to the recommendation route
  totalVessels,        \* vesselsParsed.length
  committedCount,      \* committedRows.length; cargos 0..committedCount-1
  marketCount,         \* marketCargoRows.length; the cargos after them
  requestedVessels,    \* vesselCount of the request body
  recPairResults,      \* pairResults[vesselIdx][cargoIdx]
  recPc,               \* position inside POST
  comboIdx,            \* index of the next vessel combination
  bestPortfolio,       \* null, or { vessels, assignments, totalProfit }
  evaluatedPortfolios, \* combinations that were not discarded
  recReply             \* which reply POST returned

VARIABLES
  \* --- the manual calculation page
  dataLoaded,      \* the CSV effect has set vessels and cargos
  voyages,         \* the voyage list, in display order
  bunkerPrices,    \* { ifo, mdo } of the market inputs
  portDelayDays    \* port delay of the market inputs, in 1/100 day

VARIABLES
  \* --- the chat page and the recommendation page, and their requests
  chatMessages,     \* messages of the chat page
  chatInput,        \* input of the chat page, a sequence of characters
  chatLoading,      \* loading of the chat page
  chatError,        \* error of the chat page
  chatInFlight,     \* fetch("/api/chat") calls that have not settled
  chatRendered,     \* loading as the handlers of the last render see it
  recPageLoading,   \* loading of the recommendation page
  recPageError,     \* error of the recommendation page
  recPageReply,     \* reply of the recommendation page
  recPageInFlight,  \* fetch("/api/recommendation") calls not yet settled
  recPageRendered   \* loading as the handler of the last render sees it

solverVars == <<vesselCount, cargoCount, pairResults, pc, maxProfit, cost,
                assignment, solverRuns, vi, chosen, totalProfit,
                usedCargoIds, unassignedCargos, reply>>

pairVars == <<vessel, cargo, ppc, laycanEvaluation, qtyValues, qi, bi, li,
              best, calcCount, point, result>>

calcVars == <<fn, args, ret>>

hungVars == <<hSite, hCost, hN, hM, hI, hState, hPc, hIterations,
              hAssignment>>

recVars == <<totalVessels, committedCount, marketCount, requestedVessels,
             recPairResults, recPc, comboIdx, bestPortfolio,
             evaluatedPortfolios, recReply>>

manualVars == <<dataLoaded, voyages, bunkerPrices, portDelayDays>>

pageVars == <<chatMessages, chatInput, chatLoading, chatError,
              chatInFlight, chatRendered, recPageLoading, recPageError,
              recPageReply, recPageInFlight, recPageRendered>>

vars == <<solverVars, pairVars, calcVars, hungVars, recVars, manualVars,
          pageVars>>

\* No computeBestPair call is being followed.
PairIdle ==
  /\ vessel = <<>> /\ cargo = <<>> /\ ppc = "idle"
  /\ laycanEvaluation = <<>> /\ qtyValues = <<>>
  /\ qi = 0 /\ bi = 0 /\ li = 0
  /\ best = <<>> /\ calcCount = 0 /\ point = <<>> /\ result = <<>>

\* No calculator function has been called.
CalcIdle == fn = "none" /\ args = <<>> /\ ret = <<>>

\* No computeBestPortfolioSummary call is being followed.
SolverIdle ==
  /\ vesselCount = 0 /\ cargoCount = 0 /\ pairResults = <<>>
  /\ pc = "idle" /\ maxProfit = 0 /\ cost = <<>> /\ assignment = <<>>
  /\ solverRuns = 0 /\ vi = 0 /\ chosen = <<>> /\ totalProfit = 0
  /\ usedCargoIds = {} /\ unassignedCargos = {} /\ reply = ""

\* The chat page and the recommendation page as useState creates them.
PageIdle ==
  /\ chatMessages = <<>> /\ chatInput = <<>> /\ chatLoading = FALSE
  /\ chatError = "" /\ chatInFlight = 0 /\ chatRendered = FALSE
  /\ recPageLoading = FALSE /\ recPageError = "" /\ recPageReply = <<>>
  /\ recPageInFlight = 0 /\ recPageRendered = FALSE

\* The manual page is not open.
ManualIdle ==
  /\ dataLoaded = FALSE /\ voyages = <<>>
  /\ bunkerPrices = <<>> /\ portDelayDays = 0

\* No recommendation request is being followed.
RecIdle ==
  /\ totalVessels = 0 /\ committedCount = 0 /\ marketCount = 0
  /\ requestedVessels = 0 /\ recPairResults = <<>> /\ recPc = "idle"
  /\ comboIdx = 0 /\ bestPortfolio = <<>> /\ evaluatedPortfolios = 0
  /\ recReply = ""

\* No hungarian call is being followed.
HungIdle ==
  /\ hSite = "none" /\ hCost = <<>> /\ hN = 0 /\ hM = 0 /\ hI = 0
  /\ hState = <<>> /\ hPc = "idle" /\ hIterations = 0 /\ hAssignment = <<>>

\* ------------------------------------------------------------ hungarian
Max2(a, b) == IF a > b THEN a ELSE b
Min2(a, b) == IF a < b THEN a ELSE b

\* minv[j] -= delta with IEEE infinity: Infinity - x = Infinity.
SubInf(a, d) == IF a = Infinity THEN Infinity ELSE a - d

\* for (j = 1; j <= m; j++) { if (used[j]) continue; cur = ...; ... }
RECURSIVE ScanColumns(_, _, _, _, _, _, _, _, _)
ScanColumns(c, u, v, used, i0, j0, m, j, acc) ==
  IF j > m THEN acc
  ELSE IF used[j] THEN ScanColumns(c, u, v, used, i0, j0, m, j + 1, acc)
  ELSE LET cur == c[i0][j] - u[i0] - v[j]
           lower == cur < acc.minv[j]
           minv1 == IF lower THEN [acc.minv EXCEPT ![j] = cur] ELSE acc.minv
           way1 == IF lower THEN [acc.way EXCEPT ![j] = j0] ELSE acc.way
           better == minv1[j] < acc.delta
       IN ScanColumns(c, u, v, used, i0, j0, m, j + 1,
            [minv |-> minv1, way |-> way1,
             delta |-> IF better THEN minv1[j] ELSE acc.delta,
             j1 |-> IF better THEN j ELSE acc.j1])

\* for (j = 0; j <= m; j++) { if (used[j]) { u[p[j]] += delta; v[j] -= delta }
\*                            else minv[j] -= delta }
RECURSIVE UpdatePotentials(_, _, _, _, _, _, _)
UpdatePotentials(h, p, used, delta, m, j, dummy) ==
  IF j > m THEN h
  ELSE IF used[j]
       THEN UpdatePotentials(
              [h EXCEPT !.u[p[j]] = @ + delta, !.v[j] = @ - delta],
              p, used, delta, m, j + 1, dummy)
       ELSE UpdatePotentials(
              [h EXCEPT !.minv[j] = SubInf(@, delta)],
              p, used, delta, m, j + 1, dummy)

\* First do-while of a row iteration: grow the alternating tree until a
\* free column (p[j0] = 0) is reached.
SearchStep(c, h, m) ==
  LET used1 == [h.used EXCEPT ![h.j0] = TRUE]
      i0 == h.p[h.j0]
      sc == ScanColumns(c, h.u, h.v, used1, i0, h.j0, m, 1,
              [minv |-> h.minv, way |-> h.way, delta |-> Infinity, j1 |-> 0])
      up == UpdatePotentials([u |-> h.u, v |-> h.v, minv |-> sc.minv],
              h.p, used1, sc.delta, m, 0, 0)
  IN [u |-> up.u, v |-> up.v, p |-> h.p, way |-> sc.way,
      minv |-> up.minv, used |-> used1, j0 |-> sc.j1]

RECURSIVE SearchColumn(_, _, _)
SearchColumn(c, h, m) ==
  LET hn == SearchStep(c, h, m)
  IN IF hn.p[hn.j0] # 0 THEN SearchColumn(c, hn, m) ELSE hn

\* Second do-while: flip the matching along the way[] path back to column 0.
RECURSIVE Augment(_, _, _)
Augment(p, way, j0) ==
  LET j1 == way[j0]
      p1 == [p EXCEPT ![j0] = p[j1]]
  IN IF j1 # 0 THEN Augment(p1, way, j1) ELSE p1

\* for (i = 1; i <= n; i++) { ... }
RECURSIVE RowLoop(_, _, _, _, _)
RowLoop(c, n, m, i, h) ==
  IF i > n THEN h
  ELSE LET start == [u |-> h.u, v |-> h.v, p |-> [h.p EXCEPT ![0] = i],
                     way |-> h.way,
                     minv |-> [j \in 0..m |-> Infinity],
                     used |-> [j \in 0..m |-> FALSE],
                     j0 |-> 0]
           found == SearchColumn(c, start, m)
           p2 == Augment(found.p, found.way, found.j0)
       IN RowLoop(c, n, m, i + 1,
            [u |-> found.u, v |-> found.v, p |-> p2, way |-> found.way])

\* Variant: every row takes its own cheapest column, without the matching.
hungarianRowMinimum(c, n, m) ==
  [i \in 0..(n - 1) |->
     (CHOOSE j \in 1..m : \A o \in 1..m :
        c[i + 1][j] < c[i + 1][o] \/ (c[i + 1][j] = c[i + 1][o] /\ j <= o)) - 1]

\* hungarian(cost): c has rows 1..n and columns 1..m; the result maps the
\* 0-based row index to its 0-based column index, -1 when the row got none.
hungarian(c, n, m) ==
  LET h == RowLoop(c, n, m, 1,
             [u |-> [i \in 0..n |-> 0], v |-> [j \in 0..m |-> 0],
              p |-> [j \in 0..m |-> 0], way |-> [j \in 0..m |-> 0]])
  IN [i \in 0..(n - 1) |->
        IF \E j \in 1..m : h.p[j] = i + 1
        THEN (CHOOSE j \in 1..m : h.p[j] = i + 1) - 1
        ELSE -1]

\* assignment = Array(n).fill(-1);
\* for (j = 1; j <= m; j++) if (p[j] > 0) assignment[p[j] - 1] = j - 1
AssignmentOf(p, n, m) ==
  [i \in 0..(n - 1) |->
     IF \E j \in 1..m : p[j] = i + 1
     THEN (CHOOSE j \in 1..m :
             p[j] = i + 1 /\ \A o \in (j + 1)..m : p[o] # i + 1) - 1
     ELSE -1]

\* ------------------------------------------- computeBestPortfolioSummary
\* let maxProfit = 0; for each pair: if finite and > maxProfit ...
MaxProfitOf(pr, n, k) ==
  LET vals == {pr[i][j].adjustedProfit :
                 <<i, j>> \in {<<a, b>> \in (0..(n - 1)) \X (0..(k - 1)) :
                                 ~pr[a][b].isNull}}
      pos == {x \in vals : x > 0}
  IN IF pos = {} THEN 0 ELSE CHOOSE x \in pos : \A y \in pos : y <= x

PaddedColumns(n, k) == Max2(n, k)

\* Variant: a null pair is costed like a zero-profit cell (no big).
CostCellNullAsZero(pr, mp, k, i, j) ==
  IF j >= k THEN mp
  ELSE IF pr[i][j].isNull THEN mp
  ELSE mp - pr[i][j].adjustedProfit

\* cost[i][j]: maxProfit for a dummy column, big for a null pair,
\* maxProfit - adjustedProfit otherwise.
CostCell(pr, mp, k, i, j) ==
  IF j >= k THEN mp
  ELSE IF pr[i][j].isNull THEN mp + NullPenalty
  ELSE mp - pr[i][j].adjustedProfit

BuildCost(pr, mp, n, k) ==
  [i \in 1..n |-> [j \in 1..PaddedColumns(n, k) |->
     CostCell(pr, mp, k, i - 1, j - 1)]]

\* One entry of chosen[]: matched (cargo >= 0) or vessel only (cargo = -1).
Unassigned(i) == [vessel |-> i, cargo |-> -1, profit |-> 0]
Matched(i, j, x) == [vessel |-> i, cargo |-> j, profit |-> x]

\* Variant: the post-filter tests only the column and the null pair.
KeepsPairAnyProfit(pr, k, i, j) ==
  /\ ~(j < 0 \/ j >= k)
  /\ ~pr[i][j].isNull

\* The post-filter decision for vessel i with hungarian column j.
KeepsPair(pr, k, i, j) ==
  /\ ~(j < 0 \/ j >= k)
  /\ ~pr[i][j].isNull
  /\ ~(pr[i][j].adjustedProfit <= 0)

Init ==
  /\ vesselCount \in 0..MaxSide
  /\ cargoCount \in 0..MaxSide
  /\ vesselCount * cargoCount <= MaxCells
  /\ pairResults \in [0..(vesselCount - 1) ->
                        [0..(cargoCount - 1) -> PairValues]]
  /\ pc = "start"
  /\ maxProfit = 0
  /\ cost = <<>>
  /\ assignment = <<>>
  /\ solverRuns = 0
  /\ vi = 0
  /\ chosen = <<>>
  /\ totalProfit = 0
  /\ usedCargoIds = {}
  /\ unassignedCargos = {}
  /\ reply = ""
  /\ PairIdle
  /\ CalcIdle
  /\ HungIdle
  /\ RecIdle
  /\ ManualIdle
  /\ PageIdle

\* if (!vesselsParsed.length || !cargosParsed.length) return { ... none }
ReturnEmpty ==
  /\ pc = "start"
  /\ (vesselCount = 0 \/ cargoCount = 0)
  /\ pc' = "done"
  /\ reply' = "none"
  /\ UNCHANGED <<pairVars, calcVars, hungVars, recVars, manualVars, pageVars>>
  /\ UNCHANGED <<vesselCount, cargoCount, pairResults, maxProfit, cost,
                 assignment, solverRuns, vi, chosen, totalProfit,
                 usedCargoIds, unassignedCargos>>

\* Variant: the empty-input check is missing in front of the solver.
SolveUnguarded ==
  /\ pc = "start"
  /\ LET mp == MaxProfitOf(pairResults, vesselCount, cargoCount)
         c == BuildCost(pairResults, mp, vesselCount, cargoCount)
     IN /\ maxProfit' = mp
        /\ cost' = c
        /\ assignment' = hungarian(c, vesselCount,
                                   PaddedColumns(vesselCount, cargoCount))
  /\ solverRuns' = solverRuns + 1
  /\ pc' = "filter"
  /\ UNCHANGED <<pairVars, calcVars, hungVars, recVars, manualVars, pageVars>>
  /\ UNCHANGED <<vesselCount, cargoCount, pairResults, vi, chosen,
                 totalProfit, usedCargoIds, unassignedCargos, reply>>

\* maxProfit scan, cost matrix, hungarian(cost)
Solve ==
  /\ pc = "start"
  /\ vesselCount # 0 /\ cargoCount # 0
  /\ LET mp == MaxProfitOf(pairResults, vesselCount, cargoCount)
         c == BuildCost(pairResults, mp, vesselCount, cargoCount)
     IN /\ maxProfit' = mp
        /\ cost' = c
        /\ assignment' = hungarian(c, vesselCount,
                                   PaddedColumns(vesselCount, cargoCount))
  /\ solverRuns' = solverRuns + 1
  /\ pc' = "filter"
  /\ UNCHANGED <<pairVars, calcVars, hungVars, recVars, manualVars, pageVars>>
  /\ UNCHANGED <<vesselCount, cargoCount, pairResults, vi, chosen,
                 totalProfit, usedCargoIds, unassignedCargos, reply>>

\* Loop body, branches `chosen.push({ vessel }); continue;`
LeaveUnassigned ==
  /\ pc = "filter"
  /\ vi < vesselCount
  /\ ~KeepsPair(pairResults, cargoCount, vi, assignment[vi])
  /\ chosen' = Append(chosen, Unassigned(vi))
  /\ vi' = vi + 1
  /\ UNCHANGED <<pairVars, calcVars, hungVars, recVars, manualVars, pageVars>>
  /\ UNCHANGED <<vesselCount, cargoCount, pairResults, pc, maxProfit, cost,
                 assignment, solverRuns, totalProfit, usedCargoIds,
                 unassignedCargos, reply>>

\* Variant: the matched branch forgets usedCargoIds.add.
KeepMatchUnmarked ==
  /\ pc = "filter"
  /\ vi < vesselCount
  /\ KeepsPair(pairResults, cargoCount, vi, assignment[vi])
  /\ LET j == assignment[vi]
         x == pairResults[vi][j].adjustedProfit
     IN /\ totalProfit' = totalProfit + x
        /\ chosen' = Append(chosen, Matched(vi, j, x))
  /\ vi' = vi + 1
  /\ UNCHANGED <<pairVars, calcVars, hungVars, recVars, manualVars, pageVars>>
  /\ UNCHANGED <<vesselCount, cargoCount, pairResults, pc, maxProfit, cost,
                 assignment, solverRuns, usedCargoIds, unassignedCargos,
                 reply>>

\* Loop body, matched branch.
KeepMatch ==
  /\ pc = "filter"
  /\ vi < vesselCount
  /\ KeepsPair(pairResults, cargoCount, vi, assignment[vi])
  /\ LET j == assignment[vi]
         x == pairResults[vi][j].adjustedProfit
     IN /\ totalProfit' = totalProfit + x
        /\ usedCargoIds' = usedCargoIds \cup {j}
        /\ chosen' = Append(chosen, Matched(vi, j, x))
  /\ vi' = vi + 1
  /\ UNCHANGED <<pairVars, calcVars, hungVars, recVars, manualVars, pageVars>>
  /\ UNCHANGED <<vesselCount, cargoCount, pairResults, pc, maxProfit, cost,
                 assignment, solverRuns, unassignedCargos, reply>>

\* unassignedCargos = cargosParsed.filter(c => !usedCargoIds.has(c.id))
Report ==
  /\ pc = "filter"
  /\ vi >= vesselCount
  /\ unassignedCargos' = {j \in 0..(cargoCount - 1) : j \notin usedCargoIds}
  /\ reply' = "portfolio"
  /\ pc' = "done"
  /\ UNCHANGED <<pairVars, calcVars, hungVars, recVars, manualVars, pageVars>>
  /\ UNCHANGED <<vesselCount, cargoCount, pairResults, maxProfit, cost,
                 assignment, solverRuns, vi, chosen, totalProfit,
                 usedCargoIds>>

Next ==
  \/ ReturnEmpty
  \/ Solve
  \/ LeaveUnassigned
  \/ KeepMatch
  \/ Report

Spec == Init /\ [][Next]_vars

\* ======================================================= computeBestPair
\* Units of the integer model: time in 1/100 day, quantity in 1/100 MT,
\* speed in 1/100 knot once blended, consumption in 1/1000 MT per day once
\* blended, money in whole dollars, fractions in basis points, blends in
\* hundredths (the index into blendValues).  Divisions truncate.

\* exampleInputs.costs / exampleInputs.options of freightCalculator.ts
IfoPrice == 440
MdoPrice == 850
Cev == 1500
Ilhoc == 5000
BunkerDa == 1500
MiscExpense == 48000
BunkerDays == 100
\* exampleInputs.vessel.grainCapacity and exampleInputs.cargo defaults
ExampleGrainCapacity == 70000
StowFactor == 133
PortIdleDays == 50
\* defaultDistanceNm
DefaultDistanceNm == 3000
\* blendValues = Array.from({ length: 101 }, (_, i) => i * 0.01)
BlendCount == 101
\* todayIso, as a day number
Today == 0

\* The loop guard `qty <= qtyMax + 1e-6` of the quantity axis: the tolerance
\* is one unit of the model's quantity resolution.
QtyTolerance == 1

\* parsedDistances.distanceMap: the legs of the distance table, entered in
\* both directions by parsePortDistances; every stored distance is finite.
DistanceMap ==
  (<<"SINGAPORE", "QINGDAO">> :> 2400) @@ (<<"QINGDAO", "SINGAPORE">> :> 2400)

\* getDistance(distanceMap, from, to)
getDistance(distanceMap, from, to) ==
  IF from = to THEN 0
  ELSE IF <<from, to>> \in DOMAIN distanceMap THEN distanceMap[<<from, to>>]
  ELSE DefaultDistanceNm

\* isDistanceKnown(distanceMap, from, to)
isDistanceKnown(distanceMap, from, to) ==
  IF from = to THEN TRUE ELSE <<from, to>> \in DOMAIN distanceMap

\* const ballastNm / ladenNm of computeBestPair
BallastNm(v, c) == getDistance(DistanceMap, v.currentPort, c.loadPort)
LadenNm(c) == getDistance(DistanceMap, c.loadPort, c.dischargePort)

\* Variant: the blend is used as given.
clamp01Unclamped(t) == t

\* clamp01 on hundredths
clamp01(t) == Min2(100, Max2(0, t))

\* lerp(from, to, t) with t in hundredths: the result is scaled by 100.
lerp(from, to, t) == from * 100 + (to - from) * t

\* getEffectiveProfile(economical, warranted, blend)
getEffectiveProfile(v, blendB, blendL) ==
  LET b == clamp01(blendB)
      l == clamp01(blendL)
  IN [speedBallast |-> lerp(v.speedWarrantedBallast, v.speedBallast, b),
      speedLaden |-> lerp(v.speedWarrantedLaden, v.speedLaden, l),
      ballastIfo |-> lerp(v.consWarrantedBallastIfo, v.consBallastIfo, b),
      ballastMdo |-> lerp(v.consWarrantedBallastMdo, v.consBallastMdo, b),
      ladenIfo |-> lerp(v.consWarrantedLadenIfo, v.consLadenIfo, l),
      ladenMdo |-> lerp(v.consWarrantedLadenMdo, v.consLadenMdo, l)]

\* daysAtSea / calculateBallastDays: nm / speed / 24, 0 when speed <= 0.
\* speed100 is in 1/100 knot, the result in 1/100 day.
\* Variant: only a speed of exactly zero is guarded.
daysAtSeaZeroGuard(nm, speed100) ==
  IF speed100 # 0 THEN (nm * 10000) \div (speed100 * 24) ELSE 0

daysAtSea(nm, speed100) ==
  IF speed100 > 0 THEN (nm * 10000) \div (speed100 * 24) ELSE 0

Min3(a, b, c) == Min2(a, Min2(b, c))

\* calculateFreight(inputs), with costs.ifoPrice and costs.mdoPrice given.
calculateFreightAt(v, c, cargoQty, ballastNm, ladenNm, blendB, blendL, ifoPrice, mdoPrice) ==
  LET eff == getEffectiveProfile(v, blendB, blendL)
      ballastDays == daysAtSea(ballastNm, eff.speedBallast)
      ladenDays == daysAtSea(ladenNm, eff.speedLaden)
      steamingDays == ballastDays + ladenDays
      loadportWorkingDays == IF c.loadRate > 0 THEN cargoQty \div c.loadRate ELSE 0
      disportWorkingDays ==
        IF c.dischargeRate > 0 THEN cargoQty \div c.dischargeRate ELSE 0
      loadportDays == loadportWorkingDays + c.loadportTT + c.portIdleDays
      disportDays == disportWorkingDays + c.disportTT
      totalDuration == steamingDays + BunkerDays + loadportDays + disportDays
      loadedQty == Min3(cargoQty, (v.grainCapacity * 10000) \div c.stowFactor,
                        v.dwt * 100)
      ifoAtSea == ballastDays * eff.ballastIfo + ladenDays * eff.ladenIfo
      mdoAtSea == ballastDays * eff.ballastMdo + ladenDays * eff.ladenMdo
      portWorkingDays == loadportWorkingDays + disportWorkingDays
      ifoInPort == portWorkingDays * v.portWorkingIfo * 100
                   + c.portIdleDays * v.portIdleIfo * 100
      mdoInPort == portWorkingDays * v.portWorkingMdo * 100
                   + c.portIdleDays * v.portIdleMdo * 100
      totalIfo == ifoAtSea + ifoInPort
      totalMdo == mdoAtSea + mdoInPort
      bunkerExpense == ((totalIfo \div 100) * ifoPrice) \div 1000
                       + ((totalMdo \div 100) * mdoPrice) \div 1000
      hireGross == (v.dailyHire * totalDuration) \div 100
      hireCommissions == (hireGross * v.adComsPct) \div 10000
      hireNet == hireGross - hireCommissions
      freightGross == (loadedQty * c.freightRate.value) \div 100
      freightCommissions ==
        (freightGross * (c.addressComsPct + c.brokerComsPct)) \div 10000
      freightNet == freightGross - freightCommissions
      revenueNet == freightNet + c.ballastBonus
      portDisbursements == c.portCostsLoad + c.portCostsDischarge
      operatingExpenses == Cev + Ilhoc + BunkerDa
      miscExpenseTotal == operatingExpenses + portDisbursements + MiscExpense
      totalExpenses == hireNet + bunkerExpense + miscExpenseTotal
      profit == revenueNet - totalExpenses
  IN [loadedQty |-> loadedQty, ballastDays |-> ballastDays,
      ladenDays |-> ladenDays, totalDuration |-> totalDuration,
      loadportWorkingDays |-> loadportWorkingDays,
      disportWorkingDays |-> disportWorkingDays,
      freightGross |-> freightGross, profit |-> profit,
      tce |-> IF totalDuration > 0 THEN (profit * 100) \div totalDuration ELSE 0]

\* calculateFreight(inputs) for one grid point, at the example prices.
calculateFreight(v, c, cargoQty, ballastNm, ladenNm, blendB, blendL) ==
  calculateFreightAt(v, c, cargoQty, ballastNm, ladenNm, blendB, blendL,
                     IfoPrice, MdoPrice)

\* Variant: a vessel arriving on the closing instant of the window is late.
evaluateLaycanEndExclusive(departureDate, ballastNm, ballastSpeed, laycan) ==
  LET ballastDays == daysAtSea(ballastNm, ballastSpeed * 100)
      eta == departureDate + ballastDays
  IN IF eta >= laycan.end
     THEN [status |-> "infeasible", eta |-> eta, waitingDays |-> 0,
           ballastDays |-> ballastDays]
     ELSE IF eta < laycan.start
     THEN [status |-> "early", eta |-> eta,
           waitingDays |-> laycan.start - eta, ballastDays |-> ballastDays]
     ELSE [status |-> "feasible", eta |-> eta, waitingDays |-> 0,
           ballastDays |-> ballastDays]

\* evaluateLaycan({ departureDate, ballastNm, ballastSpeed, laycan })
evaluateLaycan(departureDate, ballastNm, ballastSpeed, laycan) ==
  LET ballastDays == daysAtSea(ballastNm, ballastSpeed * 100)
      eta == departureDate + ballastDays
  IN IF eta > laycan.end
     THEN [status |-> "infeasible", eta |-> eta, waitingDays |-> 0,
           ballastDays |-> ballastDays]
     ELSE IF eta < laycan.start
     THEN [status |-> "early", eta |-> eta,
           waitingDays |-> laycan.start - eta, ballastDays |-> ballastDays]
     ELSE [status |-> "feasible", eta |-> eta, waitingDays |-> 0,
           ballastDays |-> ballastDays]

\* Variant: the deadweight comparison is missing.
getWeightFeasibilityAnyQty(cargoQty, vesselDwt) ==
  LET maxQty == Max2(0, vesselDwt) * 100
  IN ~(maxQty <= 0)

\* getWeightFeasibility(cargoQty, vesselDwt).status = "feasible"
\* (cargoQty in 1/100 MT, vesselDwt in MT)
getWeightFeasibility(cargoQty, vesselDwt) ==
  LET maxQty == Max2(0, vesselDwt) * 100
  IN ~(maxQty <= 0) /\ ~(cargoQty > maxQty)

\* getQuantityRangeFeasibility(cargoQty, range).status = "feasible"
getQuantityRangeFeasibility(cargoQty, range) ==
  \/ ~range.present
  \/ LET min == Min2(range.min, range.max)
         max == Max2(range.min, range.max)
     IN ~(cargoQty < min) /\ ~(cargoQty > max)

\* Variant: the vessel's earliest-departure date is ignored.
DepartureDateToday(v) == Today

\* parseDateInput(vessel.etdDate) ?? parseDateInput(todayIso)
DepartureDate(v) == IF v.etd.valid THEN v.etd.date ELSE Today

\* for (let qty = qtyMin; qty <= qtyMax + 1e-6; qty += qtyStep) push(qty)
RECURSIVE QtyAxis(_, _, _)
QtyAxis(qty, qtyMax, qtyStep) ==
  IF qty <= qtyMax + QtyTolerance
  THEN <<qty>> \o QtyAxis(qty + qtyStep, qtyMax, qtyStep)
  ELSE <<>>

\* Variant: the contractual range is ignored.
QtyValuesOfBaseOnly(c) == <<c.cargoQty>>

\* qtyValues of computeBestPair
QtyValuesOf(c) ==
  LET baseQty == c.cargoQty
      qtyMin == IF c.quantityRange.present
                THEN Min2(c.quantityRange.min, c.quantityRange.max) ELSE baseQty
      qtyMax == IF c.quantityRange.present
                THEN Max2(c.quantityRange.min, c.quantityRange.max) ELSE baseQty
      qtyStep == Max2(baseQty \div 100, 100)
  IN IF c.quantityRange.present THEN QtyAxis(qtyMin, qtyMax, qtyStep)
     ELSE <<baseQty>>

\* Variant: the idle fuel burnt while waiting is not charged.
WaitingCostHireOnly(v, le) ==
  IF le.status = "early" /\ le.waitingDays > 0
  THEN (le.waitingDays * v.dailyHire) \div 100
  ELSE 0

\* Variant: the base quantity is counted on top of the axis.
QtyStepsPlusBase(c) ==
  LET baseQty == c.cargoQty
      qtyMin == IF c.quantityRange.present
                THEN Min2(c.quantityRange.min, c.quantityRange.max) ELSE baseQty
      qtyMax == IF c.quantityRange.present
                THEN Max2(c.quantityRange.min, c.quantityRange.max) ELSE baseQty
      qtyStep == Max2(baseQty \div 100, 100)
  IN Max2(1, ((qtyMax - qtyMin) \div qtyStep) + 2)

\* steps of one cargo in the totalQtySteps reduce of
\* computeBestPortfolioSummary:
\* Math.max(1, Math.floor((qtyMax - qtyMin) / qtyStep) + 1)
QtySteps(c) ==
  LET baseQty == c.cargoQty
      qtyMin == IF c.quantityRange.present
                THEN Min2(c.quantityRange.min, c.quantityRange.max) ELSE baseQty
      qtyMax == IF c.quantityRange.present
                THEN Max2(c.quantityRange.min, c.quantityRange.max) ELSE baseQty
      qtyStep == Max2(baseQty \div 100, 100)
  IN Max2(1, ((qtyMax - qtyMin) \div qtyStep) + 1)

\* totalQtySteps = cargosParsed.reduce((sum, cargo) => sum + steps, 0)
RECURSIVE TotalQtySteps(_)
TotalQtySteps(cargos) ==
  IF cargos = <<>> THEN 0
  ELSE QtySteps(Head(cargos)) + TotalQtySteps(Tail(cargos))

\* combosBeforeFilters =
\*   vesselsParsed.length * totalQtySteps * speedSteps * speedSteps
CombosBeforeFilters(vessels, cargos) ==
  Len(vessels) * TotalQtySteps(cargos) * BlendCount * BlendCount

\* waitingCost of a grid point
WaitingCost(v, le) ==
  IF le.status = "early" /\ le.waitingDays > 0
  THEN (le.waitingDays * v.dailyHire) \div 100
       + (le.waitingDays * (v.portIdleIfo * IfoPrice + v.portIdleMdo * MdoPrice))
           \div 1000
  ELSE 0

\* The candidate PairResult of grid point (cargoQty, ballastBlend, ladenBlend).
GridPoint(v, c, le, cargoQty, blendB, blendL) ==
  LET r == calculateFreight(v, c, cargoQty, BallastNm(v, c), LadenNm(c),
                            blendB, blendL)
      waitingCost == WaitingCost(v, le)
  IN [isNull |-> FALSE, adjustedProfit |-> r.profit - waitingCost,
      waitingCost |-> waitingCost, profit |-> r.profit,
      cargoQty |-> cargoQty, ballastBlend |-> blendB, ladenBlend |-> blendL,
      loadedQty |-> r.loadedQty, ballastDays |-> r.ballastDays,
      freightGross |-> r.freightGross, laycanEvaluation |-> le,
      ballastNm |-> BallastNm(v, c), ladenNm |-> LadenNm(c),
      ballastDistanceKnown |->
        isDistanceKnown(DistanceMap, v.currentPort, c.loadPort),
      ladenDistanceKnown |->
        isDistanceKnown(DistanceMap, c.loadPort, c.dischargePort)]

NoResult == [isNull |-> TRUE]

\* Variant: a point that ties with the best one replaces it.
ReplacesBestOnTie(b, cand) ==
  b.isNull \/ cand.adjustedProfit >= b.adjustedProfit

\* Variant: the best point is replaced when the new one is not better.
ReplacesBestWhenLower(b, cand) ==
  b.isNull \/ cand.adjustedProfit < b.adjustedProfit

\* if (!best || adjustedProfit > best.adjustedProfit)
ReplacesBest(b, cand) == b.isNull \/ cand.adjustedProfit > b.adjustedProfit

\* ------------------------------------------------------------- inputs
NotANumber == [finite |-> FALSE, value |-> 0]
Finite(x) == [finite |-> TRUE, value |-> x]
NoRange == [present |-> FALSE, min |-> 0, max |-> 0]
Range(a, b) == [present |-> TRUE, min |-> a, max |-> b]
NoLaycan == [present |-> FALSE, start |-> 0, end |-> 0]
Laycan(a, b) == [present |-> TRUE, start |-> a, end |-> b]
NoEtd == [valid |-> FALSE, date |-> 0]
Etd(d) == [valid |-> TRUE, date |-> d]

\* A vessel in Singapore with the exampleInputs.vessel economical profile
\* (14/12 kn) and a warranted profile of its own.
Vessel(d, e, warrantedBallast, warrantedLaden, ifoBallast, ifoLaden) ==
  [dwt |-> d, grainCapacity |-> Max2(d, ExampleGrainCapacity),
   speedBallast |-> 14, speedLaden |-> 12,
   speedWarrantedBallast |-> warrantedBallast,
   speedWarrantedLaden |-> warrantedLaden,
   consBallastIfo |-> 230, consBallastMdo |-> 1,
   consLadenIfo |-> 185, consLadenMdo |-> 1,
   consWarrantedBallastIfo |-> ifoBallast, consWarrantedBallastMdo |-> 1,
   consWarrantedLadenIfo |-> ifoLaden, consWarrantedLadenMdo |-> 1,
   portWorkingIfo |-> 55, portWorkingMdo |-> 1,
   portIdleIfo |-> 55, portIdleMdo |-> 1,
   dailyHire |-> 12000, adComsPct |-> 375, etd |-> e,
   currentPort |-> "SINGAPORE"]

\* Vessels: warranted 12/11 kn, three deadweights, with or without an
\* earliest-departure date; and one vessel whose warranted speeds (15/13 kn)
\* are above the economical ones.
VesselInputs ==
  {Vessel(d, e, 12, 11, 180, 160) :
     d \in {62000, 60000, 50000}, e \in {NoEtd, Etd(1000)}}
  \cup {Vessel(60000, Etd(1000), 15, 13, 250, 200)}

\* A cargo of 60000 MT with the exampleInputs.cargo terms.
Cargo(r, f, w, loadPort, dischargePort) ==
  [cargoQty |-> 6000000, quantityRange |-> r, freightRate |-> f,
   laycanWindow |-> w, stowFactor |-> StowFactor,
   addressComsPct |-> 375, brokerComsPct |-> 125,
   loadRate |-> 8000, dischargeRate |-> 11000,
   loadportTT |-> 50, disportTT |-> 50, portIdleDays |-> PortIdleDays,
   ballastBonus |-> 0, portCostsLoad |-> 20000, portCostsDischarge |-> 20000,
   loadPort |-> loadPort, dischargePort |-> dischargePort]

\* Quantity ranges of parseQuantityRange for "60000 MT": none; "+/- 1%";
\* "+/- 0.5%", whose maximum 60000 * (1 + 0.5 / 100) is the double
\* 60299.99999999999, below 60300 by less than the loop tolerance; and the
\* explicit range "60000 - 60900".
QuantityRanges ==
  {NoRange, Range(5940000, 6060000), Range(5970000, 6030000 - QtyTolerance),
   Range(6000000, 6090000)}

\* Cargos between two ports that are absent from the distance table, with a
\* freight rate that is not a number, zero or 22, and no laycan, a window
\* around day 5..12 or a window around day 20..30; a cargo loading in the
\* vessels' port for a port of the table; and a cargo whose load_port and
\* discharge_port columns are empty.
CargoInputs ==
  {Cargo(r, f, w, "TUBARAO", "ROTTERDAM") :
     r \in QuantityRanges,
     f \in {NotANumber, Finite(0), Finite(22)},
     w \in {NoLaycan, Laycan(500, 1200), Laycan(2000, 3000)}}
  \cup {Cargo(NoRange, Finite(22), Laycan(500, 1200), "SINGAPORE", "QINGDAO"),
        Cargo(NoRange, Finite(22), Laycan(500, 1200), "UNKNOWN", "UNKNOWN")}

PairInit ==
  /\ vessel \in VesselInputs
  /\ cargo \in CargoInputs
  /\ ppc = "start"
  /\ laycanEvaluation = <<>>
  /\ qtyValues = <<>>
  /\ qi = 0 /\ bi = 0 /\ li = 0
  /\ best = NoResult
  /\ calcCount = 0
  /\ point = <<>>
  /\ result = <<>>
  /\ SolverIdle
  /\ CalcIdle
  /\ HungIdle
  /\ RecIdle
  /\ ManualIdle
  /\ PageIdle

FreightPositive(c) == c.freightRate.finite /\ ~(c.freightRate.value <= 0)

\* if (!Number.isFinite(freightRate) || freightRate <= 0) return null
ReturnNullFreight ==
  /\ ppc = "start"
  /\ ~FreightPositive(cargo)
  /\ result' = NoResult
  /\ ppc' = "done"
  /\ UNCHANGED <<vessel, cargo, laycanEvaluation, qtyValues, qi, bi, li,
                 best, calcCount, point>>
  /\ UNCHANGED <<solverVars, calcVars, hungVars, recVars, manualVars, pageVars>>

\* if (!laycanWindow || !departureDate) return null
ReturnNullNoLaycan ==
  /\ ppc = "start"
  /\ FreightPositive(cargo)
  /\ ~cargo.laycanWindow.present
  /\ result' = NoResult
  /\ ppc' = "done"
  /\ UNCHANGED <<vessel, cargo, laycanEvaluation, qtyValues, qi, bi, li,
                 best, calcCount, point>>
  /\ UNCHANGED <<solverVars, calcVars, hungVars, recVars, manualVars, pageVars>>

\* if (laycanEvaluation.status === "infeasible") return null
ReturnNullLaycanMissed ==
  /\ ppc = "start"
  /\ FreightPositive(cargo)
  /\ cargo.laycanWindow.present
  /\ LET le == evaluateLaycan(DepartureDate(vessel), BallastNm(vessel, cargo),
                              vessel.speedBallast, cargo.laycanWindow)
     IN /\ le.status = "infeasible"
        /\ laycanEvaluation' = le
  /\ result' = NoResult
  /\ ppc' = "done"
  /\ UNCHANGED <<vessel, cargo, qtyValues, qi, bi, li, best, calcCount,
                 point>>
  /\ UNCHANGED <<solverVars, calcVars, hungVars, recVars, manualVars, pageVars>>

\* Past the early returns: build qtyValues, let best = null.
BeginGrid ==
  /\ ppc = "start"
  /\ FreightPositive(cargo)
  /\ cargo.laycanWindow.present
  /\ LET le == evaluateLaycan(DepartureDate(vessel), BallastNm(vessel, cargo),
                              vessel.speedBallast, cargo.laycanWindow)
     IN /\ le.status # "infeasible"
        /\ laycanEvaluation' = le
  /\ qtyValues' = QtyValuesOf(cargo)
  /\ qi' = 1
  /\ ppc' = "qty"
  /\ UNCHANGED <<vessel, cargo, bi, li, best, calcCount, point, result>>
  /\ UNCHANGED <<solverVars, calcVars, hungVars, recVars, manualVars, pageVars>>

PassesFilters(v, c, cargoQty) ==
  /\ getQuantityRangeFeasibility(cargoQty, c.quantityRange)
  /\ getWeightFeasibility(cargoQty, v.dwt)

\* Head of the quantity loop, `continue` branches.
SkipQuantity ==
  /\ ppc = "qty"
  /\ qi <= Len(qtyValues)
  /\ ~PassesFilters(vessel, cargo, qtyValues[qi])
  /\ qi' = qi + 1
  /\ UNCHANGED <<vessel, cargo, ppc, laycanEvaluation, qtyValues, bi, li,
                 best, calcCount, point, result>>
  /\ UNCHANGED <<solverVars, calcVars, hungVars, recVars, manualVars, pageVars>>

\* Head of the quantity loop, both filters passed: enter the blend loops.
EnterBlends ==
  /\ ppc = "qty"
  /\ qi <= Len(qtyValues)
  /\ PassesFilters(vessel, cargo, qtyValues[qi])
  /\ bi' = 0 /\ li' = 0
  /\ ppc' = "blend"
  /\ UNCHANGED <<vessel, cargo, laycanEvaluation, qtyValues, qi, best,
                 calcCount, point, result>>
  /\ UNCHANGED <<solverVars, calcVars, hungVars, recVars, manualVars, pageVars>>

\* Body of the innermost loop for (qtyValues[qi], blendValues[bi],
\* blendValues[li]), followed by the loop increments.
EvaluatePoint ==
  /\ ppc = "blend"
  /\ LET cand == GridPoint(vessel, cargo, laycanEvaluation, qtyValues[qi], bi, li)
     IN /\ point' = cand
        /\ best' = IF ReplacesBest(best, cand) THEN cand ELSE best
  /\ calcCount' = calcCount + 1
  /\ IF li + 1 < BlendCount
     THEN /\ li' = li + 1
          /\ UNCHANGED <<bi, qi, ppc>>
     ELSE IF bi + 1 < BlendCount
     THEN /\ li' = 0
          /\ bi' = bi + 1
          /\ UNCHANGED <<qi, ppc>>
     ELSE /\ li' = 0
          /\ bi' = 0
          /\ qi' = qi + 1
          /\ ppc' = "qty"
  /\ UNCHANGED <<vessel, cargo, laycanEvaluation, qtyValues, result>>
  /\ UNCHANGED <<solverVars, calcVars, hungVars, recVars, manualVars, pageVars>>

\* return best
ReturnBest ==
  /\ ppc = "qty"
  /\ qi > Len(qtyValues)
  /\ result' = best
  /\ ppc' = "done"
  /\ UNCHANGED <<vessel, cargo, laycanEvaluation, qtyValues, qi, bi, li,
                 best, calcCount, point>>
  /\ UNCHANGED <<solverVars, calcVars, hungVars, recVars, manualVars, pageVars>>

PairNext ==
  \/ ReturnNullFreight
  \/ ReturnNullNoLaycan
  \/ ReturnNullLaycanMissed
  \/ BeginGrid
  \/ SkipQuantity
  \/ EnterBlends
  \/ EvaluatePoint
  \/ ReturnBest

PairSpec == PairInit /\ [][PairNext]_vars

\* ================================================== calculator functions
\* Calls of the exported functions of laycan.ts and weight.ts on inputs of
\* their own, one call per step.

\* Departure dates, ballast distances (nm), ballast speeds (knots) and
\* laycan windows with start <= end (1/100 day).  2400 nm at 10 kn and
\* 3360 nm at 14 kn take exactly 10 days.
LaycanDepartures == {0, 1000}
LaycanDistances == {0, 2400, 3000, 3360}
LaycanSpeeds == {-5, 0, 10, 14}
LaycanWindows ==
  {Laycan(1000, 1000), Laycan(1000, 2000), Laycan(500, 1000),
   Laycan(1001, 2000), Laycan(0, 999), Laycan(2000, 2000)}

\* JavaScript numbers of the weight checks: NaN, +/-Infinity or an integer.
NumNaN == [kind |-> "nan", value |-> 0]
NumPosInf == [kind |-> "inf", value |-> 1]
NumNegInf == [kind |-> "inf", value |-> -1]
Num(x) == [kind |-> "num", value |-> x]

\* Number.isFinite(x)
IsFinite(x) == x.kind = "num"

\* a > b; false when either is NaN
Gt(a, b) ==
  /\ a.kind # "nan"
  /\ b.kind # "nan"
  /\ IF a.kind = "inf" THEN a.value = 1 /\ ~(b.kind = "inf" /\ b.value = 1)
     ELSE IF b.kind = "inf" THEN b.value = -1
     ELSE a.value > b.value

\* a <= b; false when either is NaN
Le(a, b) == a.kind # "nan" /\ b.kind # "nan" /\ ~Gt(a, b)

\* a < b; false when either is NaN
Lt(a, b) == Gt(b, a)

\* Math.max(a, b); NaN when either is NaN
MathMax(a, b) ==
  IF a.kind = "nan" \/ b.kind = "nan" THEN NumNaN
  ELSE IF Gt(a, b) THEN a ELSE b

\* getWeightFeasibility(cargoQty, vesselDwt), the whole result, on
\* JavaScript numbers.
WeightFeasibility(cargoQty, vesselDwt) ==
  LET maxQty == MathMax(Num(0), vesselDwt)
  IN IF ~IsFinite(cargoQty) \/ ~IsFinite(vesselDwt)
     THEN [status |-> "infeasible", maxQty |-> maxQty, overage |-> Num(0)]
     ELSE IF Le(maxQty, Num(0))
     THEN [status |-> "infeasible", maxQty |-> maxQty, overage |-> cargoQty]
     ELSE IF Gt(cargoQty, maxQty)
     THEN [status |-> "infeasible", maxQty |-> maxQty,
           overage |-> Num(cargoQty.value - maxQty.value)]
     ELSE [status |-> "feasible", maxQty |-> maxQty, overage |-> Num(0)]

\* Variant: the bounds of the range are taken as given, not ordered.
QuantityRangeFeasibilityAsGiven(cargoQty, range) ==
  IF ~range.present
  THEN [status |-> "feasible", min |-> 0, max |-> 0,
        underage |-> 0, overage |-> 0]
  ELSE LET min == range.min
           max == range.max
       IN IF ~IsFinite(cargoQty)
          THEN [status |-> "infeasible", min |-> min, max |-> max,
                underage |-> 0, overage |-> 0]
          ELSE IF cargoQty.value < min
          THEN [status |-> "infeasible", min |-> min, max |-> max,
                underage |-> min - cargoQty.value, overage |-> 0]
          ELSE IF cargoQty.value > max
          THEN [status |-> "infeasible", min |-> min, max |-> max,
                underage |-> 0, overage |-> cargoQty.value - max]
          ELSE [status |-> "feasible", min |-> min, max |-> max,
                underage |-> 0, overage |-> 0]

\* getQuantityRangeFeasibility(cargoQty, range), the whole result, for a
\* JavaScript number cargoQty and a range with finite bounds.
QuantityRangeFeasibility(cargoQty, range) ==
  IF ~range.present
  THEN [status |-> "feasible", min |-> 0, max |-> 0,
        underage |-> 0, overage |-> 0]
  ELSE LET min == Min2(range.min, range.max)
           max == Max2(range.min, range.max)
       IN IF ~IsFinite(cargoQty)
          THEN [status |-> "infeasible", min |-> min, max |-> max,
                underage |-> 0, overage |-> 0]
          ELSE IF cargoQty.value < min
          THEN [status |-> "infeasible", min |-> min, max |-> max,
                underage |-> min - cargoQty.value, overage |-> 0]
          ELSE IF cargoQty.value > max
          THEN [status |-> "infeasible", min |-> min, max |-> max,
                underage |-> 0, overage |-> cargoQty.value - max]
          ELSE [status |-> "feasible", min |-> min, max |-> max,
                underage |-> 0, overage |-> 0]

\* Ranges the range check is called with (MT): none, 5000..6000, the same
\* with its bounds swapped, and a single quantity.
RangeArgs == {NoRange, Range(5000, 6000), Range(6000, 5000), Range(5000, 5000)}

\* Quantities and deadweights the weight checks are called with (MT).
QtyArgs ==
  {NumNaN, NumPosInf, NumNegInf}
  \cup {Num(x) : x \in {-100, 0, 1, 4999, 5000, 5001, 6000}}
DwtArgs ==
  {NumNaN, NumPosInf, NumNegInf} \cup {Num(x) : x \in {-5000, 0, 5000, 6000}}

CalcInit ==
  /\ CalcIdle
  /\ SolverIdle
  /\ PairIdle
  /\ HungIdle
  /\ RecIdle
  /\ ManualIdle
  /\ PageIdle

CallEvaluateLaycan ==
  /\ \E d \in LaycanDepartures, nm \in LaycanDistances,
        speed \in LaycanSpeeds, w \in LaycanWindows :
       /\ args' = [departureDate |-> d, ballastNm |-> nm,
                   ballastSpeed |-> speed, laycan |-> w]
       /\ ret' = evaluateLaycan(d, nm, speed, w)
  /\ fn' = "evaluateLaycan"
  /\ UNCHANGED <<solverVars, pairVars, hungVars, recVars, manualVars, pageVars>>

CallGetWeightFeasibility ==
  /\ \E q \in QtyArgs, d \in DwtArgs :
       /\ args' = [cargoQty |-> q, vesselDwt |-> d]
       /\ ret' = WeightFeasibility(q, d)
  /\ fn' = "getWeightFeasibility"
  /\ UNCHANGED <<solverVars, pairVars, hungVars, recVars, manualVars, pageVars>>

CallGetQuantityRangeFeasibility ==
  /\ \E q \in QtyArgs, r \in RangeArgs :
       /\ args' = [cargoQty |-> q, range |-> r]
       /\ ret' = QuantityRangeFeasibility(q, r)
  /\ fn' = "getQuantityRangeFeasibility"
  /\ UNCHANGED <<solverVars, pairVars, hungVars, recVars, manualVars, pageVars>>

\* Speed blends getEffectiveProfile is called with, in hundredths: below 0,
\* the two ends, inside, and above 1.
BlendArgs == {-50, 0, 1, 37, 99, 100, 150}

CallGetEffectiveProfile ==
  /\ \E v \in VesselInputs, b \in BlendArgs, l \in BlendArgs :
       /\ args' = [vessel |-> v, ballast |-> b, laden |-> l]
       /\ ret' = getEffectiveProfile(v, b, l)
  /\ fn' = "getEffectiveProfile"
  /\ UNCHANGED <<solverVars, pairVars, hungVars, recVars, manualVars, pageVars>>

\* Vessels whose warranted speed is negative, zero or 12 kn on both legs.
FreightVessels == {Vessel(62000, NoEtd, w, w, 180, 160) : w \in {-5, 0, 12}}

\* Cargos with a load rate, a discharge rate and a load port turn time that
\* are negative, zero or the example's.
FreightCargos ==
  {[Cargo(NoRange, Finite(22), NoLaycan, "TUBARAO", "ROTTERDAM")
      EXCEPT !.loadRate = lr, !.dischargeRate = dr, !.loadportTT = tt] :
     lr \in {-8000, 0, 8000}, dr \in {0, 11000}, tt \in {-250, -200, 50}}

FreightDistances == {0, 3000}

CallCalculateFreight ==
  /\ \E v \in FreightVessels, c \in FreightCargos, nm \in FreightDistances,
        b \in {0, 100} :
       /\ args' = [vessel |-> v, cargo |-> c, cargoQty |-> c.cargoQty,
                   ballastNm |-> nm, ladenNm |-> nm, ballastBlend |-> b,
                   ladenBlend |-> b]
       /\ ret' = calculateFreight(v, c, c.cargoQty, nm, nm, b, b)
  /\ fn' = "calculateFreight"
  /\ UNCHANGED <<solverVars, pairVars, hungVars, recVars, manualVars, pageVars>>

CalcNext ==
  \/ CallEvaluateLaycan
  \/ CallCalculateFreight
  \/ CallGetEffectiveProfile
  \/ CallGetWeightFeasibility
  \/ CallGetQuantityRangeFeasibility

CalcSpec == CalcInit /\ [][CalcNext]_vars

\* ------------------------------------- hungarian, one loop iteration a step
\* Costs the matrices are drawn from.
CostValues == {0, 1, 3}

\* The three calls of hungarian: the chat route's solver (a vessels,
\* b cargos), and the recommendation route's committed stage (a committed
\* cargos, b selected vessels) and market stage (a remaining vessel
\* positions, b market cargos).
HungSites == {"chat", "committed", "market"}

\* Whether the call site reaches its hungarian call.
SiteCalls(site, a, b) ==
  CASE site = "chat" -> a > 0 /\ b > 0
    [] site = "committed" -> a > 0 /\ ~(a > b)
    [] site = "market" -> a > 0 /\ b > 0

SiteRows(site, a, b) == a

SiteColumns(site, a, b) ==
  CASE site = "chat" -> PaddedColumns(a, b)
    [] site = "committed" -> b
    [] site = "market" -> b + a

HungInit ==
  /\ HungIdle
  /\ SolverIdle
  /\ PairIdle
  /\ CalcIdle
  /\ RecIdle
  /\ ManualIdle
  /\ PageIdle

\* A call site builds its matrix and enters hungarian: n, m, and the
\* arrays u, v, p, way filled with 0.
CallHungarian ==
  /\ hPc = "idle"
  /\ \E site \in HungSites, a \in 0..MaxSide, b \in 0..MaxSide :
       /\ SiteCalls(site, a, b)
       /\ SiteRows(site, a, b) * SiteColumns(site, a, b) <= MaxMatrixCells
       /\ hSite' = site
       /\ hN' = SiteRows(site, a, b)
       /\ hM' = SiteColumns(site, a, b)
  /\ hCost' \in [1..hN' -> [1..hM' -> CostValues]]
  /\ hI' = 1
  /\ hState' = [u |-> [i \in 0..hN' |-> 0], v |-> [j \in 0..hM' |-> 0],
                p |-> [j \in 0..hM' |-> 0], way |-> [j \in 0..hM' |-> 0],
                minv |-> [j \in 0..hM' |-> Infinity],
                used |-> [j \in 0..hM' |-> FALSE], j0 |-> 0]
  /\ hPc' = "row"
  /\ hIterations' = 0
  /\ hAssignment' = <<>>
  /\ UNCHANGED <<solverVars, pairVars, calcVars, recVars, manualVars, pageVars>>

\* for (i = 1; i <= n; i++) { p[0] = i; j0 = 0; minv = ...; used = ...
BeginRow ==
  /\ hPc = "row"
  /\ hI <= hN
  /\ hState' = [hState EXCEPT !.p[0] = hI, !.j0 = 0,
                               !.minv = [j \in 0..hM |-> Infinity],
                               !.used = [j \in 0..hM |-> FALSE]]
  /\ hPc' = "search"
  /\ UNCHANGED <<hSite, hCost, hN, hM, hI, hIterations, hAssignment>>
  /\ UNCHANGED <<solverVars, pairVars, calcVars, recVars, manualVars, pageVars>>

\* Variant: the first do-while stops at the first column it reaches.
SearchContinuesNever(h) == FALSE

\* while (p[j0] !== 0)
SearchContinues(h) == h.p[h.j0] # 0

\* One iteration of the first do-while.
SearchIteration ==
  /\ hPc = "search"
  /\ LET hn == SearchStep(hCost, hState, hM)
     IN /\ hState' = hn
        /\ hPc' = IF SearchContinues(hn) THEN "search" ELSE "augment"
  /\ hIterations' = hIterations + 1
  /\ UNCHANGED <<hSite, hCost, hN, hM, hI, hAssignment>>
  /\ UNCHANGED <<solverVars, pairVars, calcVars, recVars, manualVars, pageVars>>

\* Variant: the second do-while does not move along way[].
AugmentColumnStays(way, j0) == j0

\* const j1 = way[j0]
AugmentColumn(way, j0) == way[j0]

\* One iteration of the second do-while; it repeats while (j0 !== 0), and
\* the row is finished when it ends.
AugmentIteration ==
  /\ hPc = "augment"
  /\ LET j1 == AugmentColumn(hState.way, hState.j0)
     IN /\ hState' = [hState EXCEPT !.p[hState.j0] = hState.p[j1], !.j0 = j1]
        /\ hPc' = IF j1 # 0 THEN "augment" ELSE "row"
        /\ hI' = IF j1 # 0 THEN hI ELSE hI + 1
  /\ hIterations' = hIterations + 1
  /\ UNCHANGED <<hSite, hCost, hN, hM, hAssignment>>
  /\ UNCHANGED <<solverVars, pairVars, calcVars, recVars, manualVars, pageVars>>

\* After the last row: build and return the assignment array.
ReturnAssignment ==
  /\ hPc = "row"
  /\ hI > hN
  /\ hAssignment' = AssignmentOf(hState.p, hN, hM)
  /\ hPc' = "done"
  /\ UNCHANGED <<hSite, hCost, hN, hM, hI, hState, hIterations>>
  /\ UNCHANGED <<solverVars, pairVars, calcVars, recVars, manualVars, pageVars>>

HungNext ==
  \/ CallHungarian
  \/ BeginRow
  \/ SearchIteration
  \/ AugmentIteration
  \/ ReturnAssignment

HungSpec == HungInit /\ [][HungNext]_vars

\* ---------------------------------------------------- recommendation route
\* Adjusted profits of the recommendation matrices, in 1000 dollars: a loss
\* and two gains.
RecPairValues == {NullPair, Pair(-1), Pair(1), Pair(5)}

\* buildCombos(count, pick): the pick-element index lists, in walk order.
RECURSIVE walk(_, _, _, _)
RECURSIVE walkFrom(_, _, _, _)
walk(start, current, count, pick) ==
  IF Len(current) = pick THEN <<current>>
  ELSE walkFrom(start, current, count, pick)

walkFrom(i, current, count, pick) ==
  IF i > count - (pick - Len(current)) THEN <<>>
  ELSE walk(i + 1, Append(current, i), count, pick)
       \o walkFrom(i + 1, current, count, pick)

buildCombos(count, pick) == walk(0, <<>>, count, pick)

\* vesselPick = Math.min(vesselCount, totalVessels)
vesselPick == Min2(requestedVessels, totalVessels)

vesselCombos == buildCombos(totalVessels, vesselPick)

\* maxProfit of the route, and big (1e9 dollars above it)
recMaxProfit ==
  MaxProfitOf(recPairResults, totalVessels, committedCount + marketCount)

recBig == recMaxProfit + NullPenalty

\* pair ? maxProfit - pair.adjustedProfit : big
PairCost(pair) ==
  IF pair.isNull THEN recBig ELSE recMaxProfit - pair.adjustedProfit

\* committedCost[cargoIdx][vesselPos], as 1-based rows and columns
committedCost(combo) ==
  [r \in 1..committedCount |->
     [c \in 1..vesselPick |-> PairCost(recPairResults[combo[c]][r - 1])]]

\* The loop that validates the committed assignment and collects its
\* pairs.  used holds the vessel positions taken.
CommittedAssignments(combo, committedAssignment) ==
  LET PairAt(cargoIdx) ==
        recPairResults[combo[committedAssignment[cargoIdx] + 1]][cargoIdx]
      Valid(cargoIdx) ==
        LET vesselPos == committedAssignment[cargoIdx]
        IN /\ ~(vesselPos < 0 \/ vesselPos >= vesselPick)
           /\ \A o \in 0..(cargoIdx - 1) : committedAssignment[o] # vesselPos
           /\ ~PairAt(cargoIdx).isNull
  IN IF \A cargoIdx \in 0..(committedCount - 1) : Valid(cargoIdx)
     THEN [feasible |-> TRUE,
           assignments |->
             [k \in 1..committedCount |->
                [vessel |-> combo[committedAssignment[k - 1] + 1],
                 cargo |-> k - 1,
                 adjustedProfit |-> PairAt(k - 1).adjustedProfit]],
           used |-> {committedAssignment[k] : k \in 0..(committedCount - 1)}]
     ELSE [feasible |-> FALSE, assignments |-> <<>>, used |-> {}]

\* The committed stage of one combination.
CommittedStage(combo) ==
  IF committedCount > 0
  THEN CommittedAssignments(combo,
         hungarian(committedCost(combo), committedCount, vesselPick))
  ELSE [feasible |-> TRUE, assignments |-> <<>>, used |-> {}]

\* Variant: the market stage gets every vessel position.
PositionFreeAlways(used, pos) == TRUE

\* !usedVesselPositions.has(pos)
PositionFree(used, pos) == pos \notin used

\* The positions 0..vesselPick-1 that are not used, ascending.
RECURSIVE remainingPositions(_, _)
remainingPositions(used, pos) ==
  IF pos >= vesselPick THEN <<>>
  ELSE (IF PositionFree(used, pos) THEN <<pos>> ELSE <<>>)
       \o remainingPositions(used, pos + 1)

\* marketCost[rowIdx][colIdx], as 1-based rows and columns
marketCost(combo, remaining) ==
  [r \in 1..Len(remaining) |->
     [c \in 1..(marketCount + Len(remaining)) |->
        IF c - 1 >= marketCount THEN recMaxProfit
        ELSE PairCost(recPairResults[combo[remaining[r] + 1]]
                                    [committedCount + (c - 1)])]]

\* !(!pair || !Number.isFinite(pair.adjustedProfit) || pair.adjustedProfit <= 0)
MarketTakes(pair) == ~pair.isNull /\ ~(pair.adjustedProfit <= 0)

\* The market assignments of rows rowIdx.., in row order.
RECURSIVE marketAssignments(_, _, _, _)
marketAssignments(combo, remaining, marketAssignment, rowIdx) ==
  IF rowIdx >= Len(remaining) THEN <<>>
  ELSE LET colIdx == marketAssignment[rowIdx]
           vesselIdx == combo[remaining[rowIdx + 1] + 1]
           cargoIdx == committedCount + colIdx
           rest == marketAssignments(combo, remaining, marketAssignment,
                                     rowIdx + 1)
       IN IF colIdx < 0 \/ colIdx >= marketCount THEN rest
          ELSE IF ~MarketTakes(recPairResults[vesselIdx][cargoIdx]) THEN rest
          ELSE <<[vessel |-> vesselIdx, cargo |-> cargoIdx,
                  adjustedProfit |->
                    recPairResults[vesselIdx][cargoIdx].adjustedProfit]>>
               \o rest

\* The market stage on the vessel positions the committed stage left.
MarketStage(combo, used) ==
  LET remaining == remainingPositions(used, 0)
  IN IF Len(remaining) > 0 /\ marketCount > 0
     THEN marketAssignments(combo, remaining,
            hungarian(marketCost(combo, remaining), Len(remaining),
                      marketCount + Len(remaining)), 0)
     ELSE <<>>

RECURSIVE TotalOf(_, _)
TotalOf(assignments, k) ==
  IF k = 0 THEN 0
  ELSE assignments[k].adjustedProfit + TotalOf(assignments, k - 1)

NoPortfolio == [isNull |-> TRUE, vessels |-> <<>>, assignments |-> <<>>,
                totalProfit |-> 0]

RecInit ==
  /\ totalVessels \in 0..MaxSide
  /\ committedCount \in 0..MaxSide
  /\ marketCount \in 0..MaxSide
  /\ committedCount + marketCount <= MaxSide
  /\ totalVessels * (committedCount + marketCount) <= MaxCells
  /\ requestedVessels \in 1..MaxSide
  /\ recPairResults \in
       [0..(totalVessels - 1) ->
          [0..(committedCount + marketCount - 1) -> RecPairValues]]
  /\ recPc = "start"
  /\ comboIdx = 0
  /\ bestPortfolio = NoPortfolio
  /\ evaluatedPortfolios = 0
  /\ recReply = ""
  /\ SolverIdle
  /\ PairIdle
  /\ CalcIdle
  /\ HungIdle
  /\ ManualIdle
  /\ PageIdle

\* if (cargosParsed.length === 0 || vesselsParsed.length === 0) return ...
ReplyNoData ==
  /\ recPc = "start"
  /\ committedCount + marketCount = 0 \/ totalVessels = 0
  /\ recReply' = "no data"
  /\ recPc' = "done"
  /\ UNCHANGED <<totalVessels, committedCount, marketCount, requestedVessels,
                 recPairResults, comboIdx, bestPortfolio, evaluatedPortfolios>>
  /\ UNCHANGED <<solverVars, pairVars, calcVars, hungVars, manualVars, pageVars>>

\* if (committedCount > vesselPick) return ...
ReplyCommittedExceed ==
  /\ recPc = "start"
  /\ ~(committedCount + marketCount = 0 \/ totalVessels = 0)
  /\ committedCount > vesselPick
  /\ recReply' = "committed exceed"
  /\ recPc' = "done"
  /\ UNCHANGED <<totalVessels, committedCount, marketCount, requestedVessels,
                 recPairResults, comboIdx, bestPortfolio, evaluatedPortfolios>>
  /\ UNCHANGED <<solverVars, pairVars, calcVars, hungVars, manualVars, pageVars>>

EnterCombos ==
  /\ recPc = "start"
  /\ ~(committedCount + marketCount = 0 \/ totalVessels = 0)
  /\ ~(committedCount > vesselPick)
  /\ recPc' = "combos"
  /\ UNCHANGED <<totalVessels, committedCount, marketCount, requestedVessels,
                 recPairResults, comboIdx, bestPortfolio, evaluatedPortfolios,
                 recReply>>
  /\ UNCHANGED <<solverVars, pairVars, calcVars, hungVars, manualVars, pageVars>>

\* The portfolio of a combination whose committed stage succeeded.
PortfolioOf(combo, committed, market) ==
  LET assignments == committed.assignments \o market
  IN [isNull |-> FALSE, vessels |-> combo, assignments |-> assignments,
      totalProfit |-> TotalOf(assignments, Len(assignments))]

\* !bestPortfolio || total > bestPortfolio.totalProfit
BetterPortfolio(candidate, current) ==
  current.isNull \/ candidate.totalProfit > current.totalProfit

\* Body of for (const combo of vesselCombos): the committed stage, then
\* either continue, or the market stage and the comparison with
\* bestPortfolio.
EvaluateCombo ==
  /\ recPc = "combos"
  /\ comboIdx < Len(vesselCombos)
  /\ \E committed \in {CommittedStage(vesselCombos[comboIdx + 1])} :
       IF ~committed.feasible
       THEN UNCHANGED <<bestPortfolio, evaluatedPortfolios>>
       ELSE \E candidate \in
                 {PortfolioOf(vesselCombos[comboIdx + 1], committed,
                    MarketStage(vesselCombos[comboIdx + 1], committed.used))} :
              /\ bestPortfolio' =
                   IF BetterPortfolio(candidate, bestPortfolio)
                   THEN candidate ELSE bestPortfolio
              /\ evaluatedPortfolios' = evaluatedPortfolios + 1
  /\ comboIdx' = comboIdx + 1
  /\ UNCHANGED <<totalVessels, committedCount, marketCount, requestedVessels,
                 recPairResults, recPc, recReply>>
  /\ UNCHANGED <<solverVars, pairVars, calcVars, hungVars, manualVars, pageVars>>

\* if (!bestPortfolio) return "No feasible recommendation found ..."
ReplyNoFeasible ==
  /\ recPc = "combos"
  /\ comboIdx = Len(vesselCombos)
  /\ bestPortfolio.isNull
  /\ recReply' = "no feasible"
  /\ recPc' = "done"
  /\ UNCHANGED <<totalVessels, committedCount, marketCount, requestedVessels,
                 recPairResults, comboIdx, bestPortfolio, evaluatedPortfolios>>
  /\ UNCHANGED <<solverVars, pairVars, calcVars, hungVars, manualVars, pageVars>>

ReplyRecommendation ==
  /\ recPc = "combos"
  /\ comboIdx = Len(vesselCombos)
  /\ ~bestPortfolio.isNull
  /\ recReply' = "recommendation"
  /\ recPc' = "done"
  /\ UNCHANGED <<totalVessels, committedCount, marketCount, requestedVessels,
                 recPairResults, comboIdx, bestPortfolio, evaluatedPortfolios>>
  /\ UNCHANGED <<solverVars, pairVars, calcVars, hungVars, manualVars, pageVars>>

RecNext ==
  \/ ReplyNoData
  \/ ReplyCommittedExceed
  \/ EnterCombos
  \/ EvaluateCombo
  \/ ReplyNoFeasible
  \/ ReplyRecommendation

RecSpec == RecInit /\ [][RecNext]_vars

\* -------------------------------------------------- manual calculation page
\* vessels and cargos after the CSV effect: one vessel, and one cargo of
\* 60000 MT +/- 1% with a laycan the vessel meets.
ManualVessels == <<Vessel(62000, NoEtd, 12, 11, 180, 160)>>

ManualCargos ==
  <<Cargo(Range(5940000, 6060000), Finite(22), Laycan(500, 1200),
          "TUBARAO", "ROTTERDAM")>>

\* Values typed into the inputs: cargo quantity (1/100 MT), IFO and MDO
\* price; and the options of the port delay select (1/100 day).
QuantityEntries == {6000000, 6300000}
IfoEntries == {440, 500}
MdoEntries == {850, 900}
PortDelayOptions == {0, 100, 200}

Undefined == [isUndefined |-> TRUE]
Defined(x) == [isUndefined |-> FALSE, value |-> x]

\* The voyage addVoyage and the CSV effect create.
NewVoyage(id) ==
  [id |-> id, vesselId |-> 1, cargoId |-> 1,
   cargoQty |-> ManualCargos[1].cargoQty,
   speedBlend |-> [ballast |-> 50, laden |-> 75],
   departureDate |-> Today,
   result |-> Undefined, laycanEvaluation |-> Undefined,
   waitingCost |-> Undefined, adjustedProfit |-> Undefined,
   weightIssue |-> Undefined]

\* getVoyageInputs + calculateFreight: the cargo's idle days include the
\* port delay, the costs hold the bunker prices of the market inputs.
VoyageResult(voyage) ==
  LET v == ManualVessels[voyage.vesselId]
      c == ManualCargos[voyage.cargoId]
      cargoData == [c EXCEPT !.portIdleDays = @ + portDelayDays]
  IN calculateFreightAt(v, cargoData, voyage.cargoQty,
       getDistance(DistanceMap, v.currentPort, c.loadPort),
       getDistance(DistanceMap, c.loadPort, c.dischargePort),
       voyage.speedBlend.ballast, voyage.speedBlend.laden,
       bunkerPrices.ifo, bunkerPrices.mdo)

\* getLaycanEvaluation
VoyageLaycan(voyage) ==
  LET v == ManualVessels[voyage.vesselId]
      c == ManualCargos[voyage.cargoId]
  IN IF ~c.laycanWindow.present THEN Undefined
     ELSE Defined(evaluateLaycan(voyage.departureDate,
            getDistance(DistanceMap, v.currentPort, c.loadPort),
            v.speedBallast, c.laycanWindow))

\* waitingCost of calculateVoyage, at the bunker prices of the market inputs
VoyageWaitingCost(v, le) ==
  IF ~le.isUndefined /\ le.value.status = "early" /\ le.value.waitingDays > 0
  THEN (le.value.waitingDays * v.dailyHire) \div 100
       + (le.value.waitingDays
            * (v.portIdleIfo * bunkerPrices.ifo + v.portIdleMdo * bunkerPrices.mdo))
           \div 1000
  ELSE 0

\* The voyage calculateVoyage puts in place of the given one.
CalculatedVoyage(voyage) ==
  LET v == ManualVessels[voyage.vesselId]
      c == ManualCargos[voyage.cargoId]
      le == VoyageLaycan(voyage)
  IN IF ~getQuantityRangeFeasibility(voyage.cargoQty, c.quantityRange)
     THEN [voyage EXCEPT !.result = Undefined, !.laycanEvaluation = Undefined,
                         !.waitingCost = Undefined,
                         !.adjustedProfit = Undefined,
                         !.weightIssue = Defined("range")]
     ELSE IF ~getWeightFeasibility(voyage.cargoQty, v.dwt)
     THEN [voyage EXCEPT !.result = Undefined, !.laycanEvaluation = Undefined,
                         !.waitingCost = Undefined,
                         !.adjustedProfit = Undefined,
                         !.weightIssue = Defined("weight")]
     ELSE IF ~le.isUndefined /\ le.value.status = "infeasible"
     THEN [voyage EXCEPT !.result = Undefined, !.laycanEvaluation = le,
                         !.waitingCost = Undefined,
                         !.adjustedProfit = Undefined,
                         !.weightIssue = Undefined]
     ELSE LET r == VoyageResult(voyage)
              w == VoyageWaitingCost(v, le)
          IN [voyage EXCEPT !.result = Defined(r), !.laycanEvaluation = le,
                            !.waitingCost = Defined(w),
                            !.adjustedProfit = Defined(r.profit - w),
                            !.weightIssue = Undefined]

\* totalProfit = voyages.reduce((sum, voyage) => sum + (voyage.result?.profit ?? 0), 0)
RECURSIVE ProfitSum(_, _)
ProfitSum(list, k) ==
  IF k = 0 THEN 0
  ELSE (IF list[k].result.isUndefined THEN 0 ELSE list[k].result.value.profit)
       + ProfitSum(list, k - 1)

manualTotalProfit == ProfitSum(voyages, Len(voyages))

\* prev.filter((voyage) => voyage.id !== voyageId)
RECURSIVE FilterOut(_, _)
FilterOut(list, voyageId) ==
  IF list = <<>> THEN <<>>
  ELSE (IF Head(list).id # voyageId THEN <<Head(list)>> ELSE <<>>)
       \o FilterOut(Tail(list), voyageId)

\* The page as first rendered: empty lists, example bunker prices, no delay.
ManualInit ==
  /\ dataLoaded = FALSE
  /\ voyages = <<>>
  /\ bunkerPrices = [ifo |-> IfoPrice, mdo |-> MdoPrice]
  /\ portDelayDays = 0
  /\ SolverIdle
  /\ PairIdle
  /\ CalcIdle
  /\ HungIdle
  /\ RecIdle
  /\ PageIdle

\* The CSV effect resolves: setVessels, setCargos, and a first voyage when
\* the list is still empty.
LoadData ==
  /\ ~dataLoaded
  /\ dataLoaded' = TRUE
  /\ voyages' = IF Len(voyages) > 0 THEN voyages ELSE <<NewVoyage(1)>>
  /\ UNCHANGED <<bunkerPrices, portDelayDays>>
  /\ UNCHANGED <<solverVars, pairVars, calcVars, hungVars, recVars, pageVars>>

\* `voyage-${prev.length + 1}`
NextVoyageId(prev) == Len(prev) + 1

addVoyage ==
  /\ dataLoaded
  /\ Len(voyages) < MaxVoyages
  /\ voyages' = Append(voyages, NewVoyage(NextVoyageId(voyages)))
  /\ UNCHANGED <<dataLoaded, bunkerPrices, portDelayDays>>
  /\ UNCHANGED <<solverVars, pairVars, calcVars, hungVars, recVars, pageVars>>

\* The Delete button of a listed voyage.
removeVoyage ==
  /\ \E k \in DOMAIN voyages : voyages' = FilterOut(voyages, voyages[k].id)
  /\ UNCHANGED <<dataLoaded, bunkerPrices, portDelayDays>>
  /\ UNCHANGED <<solverVars, pairVars, calcVars, hungVars, recVars, pageVars>>

\* The quantity input of a listed voyage: every voyage with that id takes
\* the update and drops its results.
updateVoyage ==
  /\ \E k \in DOMAIN voyages, q \in QuantityEntries :
       voyages' =
         [i \in DOMAIN voyages |->
            IF voyages[i].id = voyages[k].id
            THEN [voyages[i] EXCEPT !.cargoQty = q, !.result = Undefined,
                                    !.laycanEvaluation = Undefined,
                                    !.waitingCost = Undefined,
                                    !.adjustedProfit = Undefined,
                                    !.weightIssue = Undefined]
            ELSE voyages[i]]
  /\ UNCHANGED <<dataLoaded, bunkerPrices, portDelayDays>>
  /\ UNCHANGED <<solverVars, pairVars, calcVars, hungVars, recVars, pageVars>>

\* The Calculate button of a listed voyage.
calculateVoyage ==
  /\ \E k \in DOMAIN voyages :
       voyages' =
         [i \in DOMAIN voyages |->
            IF voyages[i].id # voyages[k].id THEN voyages[i]
            ELSE CalculatedVoyage(voyages[i])]
  /\ UNCHANGED <<dataLoaded, bunkerPrices, portDelayDays>>
  /\ UNCHANGED <<solverVars, pairVars, calcVars, hungVars, recVars, pageVars>>

\* onChange of the IFO price input
SetIfoPrice ==
  /\ \E x \in IfoEntries : bunkerPrices' = [bunkerPrices EXCEPT !.ifo = x]
  /\ UNCHANGED <<dataLoaded, voyages, portDelayDays>>
  /\ UNCHANGED <<solverVars, pairVars, calcVars, hungVars, recVars, pageVars>>

\* onChange of the MDO price input
SetMdoPrice ==
  /\ \E x \in MdoEntries : bunkerPrices' = [bunkerPrices EXCEPT !.mdo = x]
  /\ UNCHANGED <<dataLoaded, voyages, portDelayDays>>
  /\ UNCHANGED <<solverVars, pairVars, calcVars, hungVars, recVars, pageVars>>

\* onChange of the port delay select
SetPortDelayDays ==
  /\ \E d \in PortDelayOptions : portDelayDays' = d
  /\ UNCHANGED <<dataLoaded, voyages, bunkerPrices>>
  /\ UNCHANGED <<solverVars, pairVars, calcVars, hungVars, recVars, pageVars>>

ManualNext ==
  \/ LoadData
  \/ addVoyage
  \/ removeVoyage
  \/ updateVoyage
  \/ calculateVoyage
  \/ SetIfoPrice
  \/ SetMdoPrice
  \/ SetPortDelayDays

ManualSpec == ManualInit /\ [][ManualNext]_vars

\* ------------------------------------------ chat and recommendation pages
\* src/src/app/chat/page.tsx and the recommendation page of
\* src/unnamed/part_008.  Text the code trims is a sequence of characters.
\* An event handler reads the state of the render it was created in.  React
\* renders the updates of a click, submit or change event before the next
\* event is dispatched; the updates made after an await are rendered later.

\* What the user can leave in the textarea.
InputEntries == {<<>>, <<" ">>, <<"h">>, <<" ", "h", "\n">>}

\* data?.reply of the response body.
ReplyBodies == {Undefined, Defined(<<>>), Defined(<<" ">>),
                Defined(<<"o", " ">>)}

\* How a pending fetch can end: the fetch rejects, the response is not ok,
\* or the response is ok.
Outcomes == {"rejected", "notOk", "ok"}

WhiteSpace == {" ", "\n"}

RECURSIVE trimStart(_)
trimStart(s) ==
  IF s # <<>> /\ Head(s) \in WhiteSpace THEN trimStart(Tail(s)) ELSE s

RECURSIVE trimEnd(_)
trimEnd(s) ==
  IF s # <<>> /\ s[Len(s)] \in WhiteSpace
    THEN trimEnd(SubSeq(s, 1, Len(s) - 1))
    ELSE s

\* String.prototype.trim
trim(s) == trimEnd(trimStart(s))

\* data?.reply?.trim() || "No response."
ReplyText(body) ==
  IF body.isUndefined \/ trim(body.value) = <<>>
    THEN <<"N", "o">>
    ELSE trim(body.value)

PageInit ==
  /\ PageIdle
  /\ SolverIdle
  /\ PairIdle
  /\ CalcIdle
  /\ HungIdle
  /\ RecIdle
  /\ ManualIdle

chatPage == <<chatMessages, chatInput, chatLoading, chatError,
              chatInFlight, chatRendered>>

recPage == <<recPageLoading, recPageError, recPageReply, recPageInFlight,
             recPageRendered>>

\* onChange of the textarea: setInput(event.target.value)
TypeInput ==
  /\ \E value \in InputEntries : chatInput' = value
  /\ chatRendered' = chatLoading
  /\ UNCHANGED <<chatMessages, chatLoading, chatError, chatInFlight>>
  /\ UNCHANGED recPage
  /\ UNCHANGED <<solverVars, pairVars, calcVars, hungVars, recVars, manualVars>>

\* Mutant of sendGuard: the request is sent whatever loading is.
sendGuardContentOnly(content, loading) == content = <<>>

\* if (!content || loading) return;
sendGuard(content, loading) == content = <<>> \/ loading

\* sendMessage up to its await: the guard, the four setters and the fetch.
sendMessage ==
  /\ Len(chatMessages) + 2 <= MaxMessages
  /\ LET content == trim(chatInput) IN
       IF sendGuard(content, chatRendered)
         THEN UNCHANGED chatPage
         ELSE /\ chatError' = ""
              /\ chatInput' = <<>>
              /\ chatMessages' =
                   Append(chatMessages, [role |-> "user", content |-> content])
              /\ chatLoading' = TRUE
              /\ chatInFlight' = chatInFlight + 1
              /\ chatRendered' = TRUE
  /\ UNCHANGED recPage
  /\ UNCHANGED <<solverVars, pairVars, calcVars, hungVars, recVars, manualVars>>

\* sendMessage after its await: try, catch and finally.
ChatSettles ==
  /\ chatInFlight > 0
  /\ \E outcome \in Outcomes, body \in ReplyBodies :
       IF outcome = "ok"
         THEN /\ chatMessages' =
                   Append(chatMessages,
                          [role |-> "assistant", content |-> ReplyText(body)])
              /\ UNCHANGED chatError
         ELSE /\ chatError' = outcome
              /\ UNCHANGED chatMessages
  /\ chatLoading' = FALSE
  /\ chatInFlight' = chatInFlight - 1
  /\ UNCHANGED <<chatInput, chatRendered>>
  /\ UNCHANGED recPage
  /\ UNCHANGED <<solverVars, pairVars, calcVars, hungVars, recVars, manualVars>>

\* The Clear button.
resetChat ==
  /\ IF chatRendered
       THEN UNCHANGED chatPage
       ELSE /\ chatMessages' = <<>>
            /\ chatError' = ""
            /\ chatInput' = <<>>
            /\ chatRendered' = chatLoading
            /\ UNCHANGED <<chatLoading, chatInFlight>>
  /\ UNCHANGED recPage
  /\ UNCHANGED <<solverVars, pairVars, calcVars, hungVars, recVars, manualVars>>

\* React renders the chat page with the state the settled request left.
RenderChat ==
  /\ chatRendered # chatLoading
  /\ chatRendered' = chatLoading
  /\ UNCHANGED <<chatMessages, chatInput, chatLoading, chatError,
                 chatInFlight>>
  /\ UNCHANGED recPage
  /\ UNCHANGED <<solverVars, pairVars, calcVars, hungVars, recVars, manualVars>>

\* getRecommendation up to its await.
getRecommendation ==
  /\ IF recPageRendered
       THEN UNCHANGED recPage
       ELSE /\ recPageLoading' = TRUE
            /\ recPageError' = ""
            /\ recPageReply' = <<>>
            /\ recPageInFlight' = recPageInFlight + 1
            /\ recPageRendered' = TRUE
  /\ UNCHANGED chatPage
  /\ UNCHANGED <<solverVars, pairVars, calcVars, hungVars, recVars, manualVars>>

\* getRecommendation after its await: try, catch and finally.
RecommendationSettles ==
  /\ recPageInFlight > 0
  /\ \E outcome \in Outcomes, body \in ReplyBodies :
       IF outcome = "ok"
         THEN /\ recPageReply' = ReplyText(body)
              /\ UNCHANGED recPageError
         ELSE /\ recPageError' = outcome
              /\ UNCHANGED recPageReply
  /\ recPageLoading' = FALSE
  /\ recPageInFlight' = recPageInFlight - 1
  /\ UNCHANGED recPageRendered
  /\ UNCHANGED chatPage
  /\ UNCHANGED <<solverVars, pairVars, calcVars, hungVars, recVars, manualVars>>

\* React renders the recommendation page after the request settled.
RenderRecommendation ==
  /\ recPageRendered # recPageLoading
  /\ recPageRendered' = recPageLoading
  /\ UNCHANGED <<recPageLoading, recPageError, recPageReply, recPageInFlight>>
  /\ UNCHANGED chatPage
  /\ UNCHANGED <<solverVars, pairVars, calcVars, hungVars, recVars, manualVars>>

PageNext ==
  \/ TypeInput
  \/ sendMessage
  \/ ChatSettles
  \/ resetChat
  \/ RenderChat
  \/ getRecommendation
  \/ RecommendationSettles
  \/ RenderRecommendation

PageSpec == PageInit /\ [][PageNext]_vars

\* ------------------------------------------------- reference definitions
Vessels == 0..(vesselCount - 1)
Cargos == 0..(cargoCount - 1)
Solved == pc \in {"filter", "done"} /\ solverRuns > 0
Finished == pc = "done" /\ reply = "portfolio"

MatchedEntries == {e \in {chosen[x] : x \in 1..Len(chosen)} : e.cargo # -1}
UnassignedEntries == {e \in {chosen[x] : x \in 1..Len(chosen)} : e.cargo = -1}

\* One-to-one partial assignments: f[i] = -1 leaves vessel i unassigned.
PartialAssignments ==
  {f \in [Vessels -> -1..(cargoCount - 1)] :
     \A a, b \in Vessels : (a # b /\ f[a] # -1) => f[a] # f[b]}

\* Only non-null pairs with adjusted profit > 0 are matched.
Admissible(f) ==
  \A i \in Vessels : f[i] # -1 =>
     /\ ~pairResults[i][f[i]].isNull
     /\ pairResults[i][f[i]].adjustedProfit > 0

RECURSIVE ValueFrom(_, _)
ValueFrom(f, i) ==
  IF i >= vesselCount THEN 0
  ELSE (IF f[i] = -1 THEN 0 ELSE pairResults[i][f[i]].adjustedProfit)
       + ValueFrom(f, i + 1)

BestTotal ==
  LET totals == {ValueFrom(f, 0) : f \in {g \in PartialAssignments : Admissible(g)}}
  IN CHOOSE t \in totals : \A o \in totals : o <= t

PositivePairs ==
  {<<i, j>> \in Vessels \X Cargos :
     ~pairResults[i][j].isNull /\ pairResults[i][j].adjustedProfit > 0}

\* C1: the total adjusted profit of the returned assignment equals the
\* maximum total over all one-to-one partial assignments that match only
\* non-null pairs with adjusted profit > 0.
C1_TotalIsMaximum == Finished => totalProfit = BestTotal

\* C3: when some pair has adjusted profit > 0, the total adjusted profit of
\* the solved assignment is at least the adjusted profit of the single best
\* pair.
C3_AtLeastBestSinglePair ==
  (Finished /\ PositivePairs # {}) =>
     \A q \in PositivePairs : totalProfit >= pairResults[q[1]][q[2]].adjustedProfit

\* C2: no cargo appears in more than one matched triple and no vessel in
\* more than one triple of the assignment being produced.
C2_OneToOne ==
  \A x, y \in 1..Len(chosen) : x # y =>
     /\ chosen[x].vessel # chosen[y].vessel
     /\ (chosen[x].cargo # -1 => chosen[x].cargo # chosen[y].cargo)

\* Both vessels have their best pair on the same cargo, and both end up
\* matched.
C2_Witness ==
  /\ Finished
  /\ vesselCount = 2
  /\ Cardinality(MatchedEntries) = 2
  /\ \E j \in Cargos : \A i \in Vessels :
       ~pairResults[i][j].isNull /\ pairResults[i][j].adjustedProfit = 5

\* Column given to vessel i by hungarian is a dummy, a null pair or a pair
\* with adjusted profit <= 0.
Rejected(i) ==
  LET j == assignment[i]
  IN \/ j < 0 \/ j >= cargoCount
     \/ pairResults[i][j].isNull
     \/ pairResults[i][j].adjustedProfit <= 0

\* C4: every matched triple refers to a real cargo and a non-null pair with
\* adjusted profit > 0; a vessel whose column is a dummy, a null pair or a
\* pair with adjusted profit <= 0 is reported unassigned; the total is >= 0.
C4_OnlyProfitableMatches ==
  /\ \A e \in MatchedEntries :
       /\ e.cargo \in Cargos
       /\ ~pairResults[e.vessel][e.cargo].isNull
       /\ pairResults[e.vessel][e.cargo].adjustedProfit > 0
       /\ e.profit = pairResults[e.vessel][e.cargo].adjustedProfit
  /\ \A x \in 1..Len(chosen) :
       Rejected(chosen[x].vessel) => chosen[x].cargo = -1
  /\ totalProfit >= 0

\* A finished run in which one vessel was handed a real, non-null pair with
\* adjusted profit <= 0 and another vessel is matched.
C4_Witness ==
  /\ Finished
  /\ MatchedEntries # {}
  /\ \E i \in Vessels :
       /\ assignment[i] \in Cargos
       /\ ~pairResults[i][assignment[i]].isNull
       /\ pairResults[i][assignment[i]].adjustedProfit <= 0

\* Matchings of all vessels into the padded columns, up to the choice
\* among the (identical) dummy columns: f[i] = -1 puts vessel i on a dummy
\* column.  A matching of n rows into max(n, k) columns uses min(n, k) real
\* columns.
FullMatchings ==
  {f \in PartialAssignments :
     Cardinality({i \in Vessels : f[i] # -1}) = Min2(vesselCount, cargoCount)}

IsNullCell(i, j) == j >= 0 /\ j < cargoCount /\ pairResults[i][j].isNull

NullFree(f) == \A i \in Vessels : ~IsNullCell(i, f[i])

\* Total cost of a matching; a dummy cell costs maxProfit.
RECURSIVE CostFrom(_, _)
CostFrom(f, i) ==
  IF i >= vesselCount THEN 0
  ELSE (IF f[i] = -1 THEN maxProfit ELSE cost[i + 1][f[i] + 1])
       + CostFrom(f, i + 1)

RECURSIVE SumMatched(_)
SumMatched(s) ==
  IF s = <<>> THEN 0
  ELSE (IF Head(s).cargo = -1 THEN 0
        ELSE pairResults[Head(s).vessel][Head(s).cargo].adjustedProfit)
       + SumMatched(Tail(s))

\* C6: in the output every vessel appears exactly once; the unused cargos
\* are exactly those in no matched triple; the total is the sum of the
\* matched triples' adjusted profits.
C6_OutputAccounting ==
  Finished =>
    /\ Len(chosen) = vesselCount
    /\ \A i \in Vessels : chosen[i + 1].vessel = i
    /\ unassignedCargos = Cargos \ {e.cargo : e \in MatchedEntries}
    /\ totalProfit = SumMatched(chosen)

\* A finished run with a matched vessel, an unassigned vessel and an unused
\* cargo.
C6_Witness ==
  /\ Finished
  /\ MatchedEntries # {}
  /\ UnassignedEntries # {}
  /\ unassignedCargos # {}

AllNull == \A i \in Vessels : \A j \in Cargos : pairResults[i][j].isNull

\* C7: with no vessels or no cargos the computation returns the empty
\* result without running the solver; with every pair null the solver run
\* ends with every vessel unassigned, no matched triple and total profit 0;
\* in both cases the computation is not stuck before its end.
C7_DegenerateInputsAreResults ==
  /\ (vesselCount = 0 \/ cargoCount = 0) =>
        /\ solverRuns = 0
        /\ chosen = <<>>
        /\ totalProfit = 0
        /\ pc = "done" => reply = "none"
        /\ pc # "done" => ENABLED ReturnEmpty
  /\ (vesselCount # 0 /\ cargoCount # 0 /\ AllNull) =>
        /\ MatchedEntries = {}
        /\ totalProfit = 0
        /\ pc = "filter" => ENABLED (LeaveUnassigned \/ Report)
        /\ pc = "done" =>
             /\ reply = "portfolio"
             /\ Len(chosen) = vesselCount
             /\ \A i \in Vessels : chosen[i + 1] = Unassigned(i)

\* An all-null matrix for two vessels and two cargos, solved and reported.
C7_Witness ==
  /\ Finished
  /\ vesselCount = 2 /\ cargoCount = 2
  /\ AllNull
  /\ solverRuns = 1
  /\ Len(chosen) = 2

\* ----------------------------------- reference definitions, pair search
PairDone == ppc = "done"

\* ETA of the vessel at the load port when it leaves on its
\* earliest-departure date, or on the reference date when it has none.
NaturalEta ==
  (IF vessel.etd.valid THEN vessel.etd.date ELSE Today)
  + (IF vessel.speedBallast > 0
     THEN (BallastNm(vessel, cargo) * 10000) \div (vessel.speedBallast * 100 * 24)
     ELSE 0)

FreightExcluded == ~cargo.freightRate.finite \/ cargo.freightRate.value <= 0
LaycanMissing == ~cargo.laycanWindow.present
LaycanMissed == cargo.laycanWindow.present /\ NaturalEta > cargo.laycanWindow.end

\* C8: computeBestPair returns null without evaluating a grid point when
\* the freight rate is non-finite or <= 0, the cargo has no laycan window,
\* or the laycan evaluation at the vessel's departure date is infeasible.
C8_NullWithoutEvaluation ==
  (ppc # "idle" /\ (FreightExcluded \/ LaycanMissing \/ LaycanMissed)) =>
     /\ calcCount = 0
     /\ ppc \in {"start", "done"}
     /\ PairDone => result.isNull

\* A positive-freight pair whose vessel leaves on its own departure date
\* and misses a window that a departure on the reference date would meet.
C8_Witness ==
  /\ PairDone
  /\ ~FreightExcluded
  /\ vessel.etd.valid
  /\ LaycanMissed
  /\ Today + (BallastNm(vessel, cargo) * 10000) \div (vessel.speedBallast * 100 * 24)
       <= cargo.laycanWindow.end
  /\ result.isNull
  /\ calcCount = 0

InRange(q) ==
  cargo.quantityRange.present =>
     /\ cargo.quantityRange.min <= q
     /\ q <= cargo.quantityRange.max

WithinDeadweight(q) == q <= vessel.dwt * 100

\* C9: a non-null result has freight rate > 0, laycan status early or
\* feasible, a quantity inside the contractual range when there is one and
\* not above the vessel's deadweight; when no quantity grid point passes the
\* range and weight filters the result is null.
C9_ResultPassedHardFilters ==
  PairDone =>
    /\ ~result.isNull =>
         /\ cargo.freightRate.finite /\ cargo.freightRate.value > 0
         /\ result.laycanEvaluation.status \in {"early", "feasible"}
         /\ InRange(result.cargoQty)
         /\ WithinDeadweight(result.cargoQty)
    /\ (\A x \in 1..Len(qtyValues) :
          ~(InRange(qtyValues[x]) /\ WithinDeadweight(qtyValues[x])))
         => result.isNull

\* A non-null result of a ranged cargo on a vessel whose deadweight cuts
\* off part of the quantity axis.
C9_Witness ==
  /\ PairDone
  /\ ~result.isNull
  /\ cargo.quantityRange.present
  /\ \E x \in 1..Len(qtyValues) : ~WithinDeadweight(qtyValues[x])
  /\ calcCount = 2 * BlendCount * BlendCount

\* C10: the adjusted profit of the returned PairResult is >= the adjusted
\* profit of every grid point that passes the range and weight filters.
C10_ResultIsGridMaximum ==
  (PairDone /\ ~result.isNull) =>
     \A x \in 1..Len(qtyValues) :
       (InRange(qtyValues[x]) /\ WithinDeadweight(qtyValues[x])) =>
          \A b, l \in 0..(BlendCount - 1) :
             result.adjustedProfit >=
               GridPoint(vessel, cargo, laycanEvaluation, qtyValues[x], b, l).adjustedProfit

\* A full three-quantity grid whose maximum is not the first point of the
\* enumeration and is strictly above the last one.
C10_Witness ==
  /\ PairDone
  /\ ~result.isNull
  /\ calcCount = 3 * BlendCount * BlendCount
  /\ result.ballastBlend > 0
  /\ result.adjustedProfit >
       GridPoint(vessel, cargo, laycanEvaluation, qtyValues[3],
                 BlendCount - 1, BlendCount - 1).adjustedProfit

\* Grid point (q1, b1, l1) comes no later than (q2, b2, l2) in the
\* enumeration: quantity outer, ballast blend middle, laden blend inner.
\* The quantity axis is increasing, so quantities order like their indices.
NoLaterThan(q1, b1, l1, q2, b2, l2) ==
  \/ q1 < q2
  \/ q1 = q2 /\ b1 < b2
  \/ q1 = q2 /\ b1 = b2 /\ l1 <= l2

\* C11: among the grid points that tie on the highest adjusted profit the
\* returned one is the first in enumeration order (quantity, then ballast
\* blend, then laden blend): no point with the same adjusted profit that
\* passes the filters comes before it.
C11_FirstOfTiesWins ==
  (PairDone /\ ~result.isNull) =>
     \A x \in 1..Len(qtyValues) :
       (InRange(qtyValues[x]) /\ WithinDeadweight(qtyValues[x])) =>
          \A b, l \in 0..(BlendCount - 1) :
             GridPoint(vessel, cargo, laycanEvaluation, qtyValues[x], b, l).adjustedProfit
               = result.adjustedProfit
             => NoLaterThan(result.cargoQty, result.ballastBlend,
                            result.ladenBlend, qtyValues[x], b, l)

\* A vessel already in the load port: the ballast leg is 0 nm, so the last
\* ballast blend ties with the returned point, which is an earlier one.
C11_Witness ==
  /\ PairDone
  /\ ~result.isNull
  /\ BallastNm(vessel, cargo) = 0
  /\ result.ballastBlend < BlendCount - 1
  /\ GridPoint(vessel, cargo, laycanEvaluation, result.cargoQty,
               BlendCount - 1, result.ladenBlend).adjustedProfit
       = result.adjustedProfit

\* C12: the LaycanEvaluation attached to a PairResult is the evaluation of
\* the result's own grid point: its ballast transit days are the voyage
\* ballast days of the same result, those of the blended ballast speed.
C12_LaycanOfOwnGridPoint ==
  (PairDone /\ ~result.isNull) =>
     result.laycanEvaluation.ballastDays = result.ballastDays

\* Daily cost of a waiting vessel, in 1/1000 dollar per 1/100 day: daily
\* hire plus idle IFO and MDO burn (1/10 MT per day) at the bunker prices.
WaitingRate ==
  vessel.dailyHire * 10 + vessel.portIdleIfo * IfoPrice
  + vessel.portIdleMdo * MdoPrice

\* C13: at every evaluated grid point the waiting cost is waitingDays x
\* (daily hire + idle IFO burn x IFO price + idle MDO burn x MDO price) when
\* the laycan status is early and 0 when it is feasible, and the adjusted
\* profit is profit - waiting cost.
C13_WaitingCostOfEveryPoint ==
  calcCount > 0 =>
    /\ laycanEvaluation.status = "early" =>
         point.waitingCost = (laycanEvaluation.waitingDays * WaitingRate) \div 1000
    /\ laycanEvaluation.status = "feasible" => point.waitingCost = 0
    /\ point.adjustedProfit = point.profit - point.waitingCost

\* A grid point of a vessel that arrives before the window opens.
C13_Witness ==
  /\ calcCount > 0
  /\ laycanEvaluation.status = "early"
  /\ laycanEvaluation.waitingDays > 0
  /\ point.waitingCost > 0
  /\ point.adjustedProfit < point.profit

\* C14: for a speed > 0 and a window with start <= end, evaluateLaycan
\* returns ETA = departure + nm / speed / 24 days and exactly one status:
\* infeasible iff ETA > end, early iff ETA < start, feasible iff
\* start <= ETA <= end; waitingDays is start - ETA (> 0) when early and 0
\* otherwise.
C14_LaycanTrichotomy ==
  (fn = "evaluateLaycan" /\ args.ballastSpeed > 0
     /\ args.laycan.start <= args.laycan.end) =>
    LET transit == ret.eta - args.departureDate
        start == args.laycan.start
        end == args.laycan.end
    IN /\ transit * args.ballastSpeed * 24 <= args.ballastNm * 100
       /\ args.ballastNm * 100 < (transit + 1) * args.ballastSpeed * 24
       /\ ret.status \in {"infeasible", "early", "feasible"}
       /\ ret.status = "infeasible" <=> ret.eta > end
       /\ ret.status = "early" <=> ret.eta < start
       /\ ret.status = "feasible" <=> (start <= ret.eta /\ ret.eta <= end)
       /\ ret.status = "early" =>
            (ret.waitingDays = start - ret.eta /\ ret.waitingDays > 0)
       /\ ret.status # "early" => ret.waitingDays = 0

\* An arrival on the closing instant of a window that opened earlier.
C14_Witness ==
  /\ fn = "evaluateLaycan"
  /\ args.ballastSpeed > 0
  /\ args.ballastNm > 0
  /\ args.laycan.start < args.laycan.end
  /\ ret.eta = args.laycan.end
  /\ ret.status = "feasible"

\* The quantity axis has been built for a cargo with a contractual range.
RangedAxis == cargo # <<>> /\ cargo.quantityRange.present /\ qtyValues # <<>>
RangeMin == Min2(cargo.quantityRange.min, cargo.quantityRange.max)
RangeMax == Max2(cargo.quantityRange.min, cargo.quantityRange.max)
\* max(1% of the base quantity, 1 MT), in 1/100 MT
AxisStep == Max2(cargo.cargoQty \div 100, 100)
EvenlySpaced ==
  \A x \in 1..(Len(qtyValues) - 1) : qtyValues[x + 1] - qtyValues[x] = AxisStep

\* C15 (as stated): with a contractual range the quantity axis starts at the
\* range minimum, ends at the range maximum, and consecutive points differ
\* by max(1% of the base quantity, 1).
C15_AxisFromMinToMax ==
  RangedAxis =>
    /\ qtyValues[1] = RangeMin
    /\ qtyValues[Len(qtyValues)] = RangeMax
    /\ EvenlySpaced

\* C15 (amended): with a contractual range the quantity axis starts at the
\* range minimum, consecutive points differ by max(1% of the base quantity,
\* 1), and the last point is the last such multiple that is not above the
\* range maximum plus the tolerance of the loop.
C15_AxisFromMinBySteps ==
  RangedAxis =>
    /\ qtyValues[1] = RangeMin
    /\ EvenlySpaced
    /\ qtyValues[Len(qtyValues)] <= RangeMax + QtyTolerance
    /\ qtyValues[Len(qtyValues)] + AxisStep > RangeMax + QtyTolerance

\* The explicit range 60000 - 60900 with step 600: the axis is 60000, 60600
\* and the range maximum is not on it.
C15_Witness ==
  /\ RangedAxis
  /\ Len(qtyValues) = 2
  /\ qtyValues[1] = RangeMin
  /\ qtyValues[2] < RangeMax
  /\ RangeMax - qtyValues[2] > QtyTolerance

\* C16: the reported combination count is vessels x (sum of the per-cargo
\* quantity steps) x 101 x 101 whatever the filters do; the quantity-step
\* count of a cargo is the number of quantity points the grid search
\* enumerates for it, and the evaluated count never exceeds the reported
\* one.  Stated for the fleet made of the pair's vessel and cargo.
C16_CombinationCount ==
  PairDone =>
    /\ CombosBeforeFilters(<<vessel>>, <<cargo>>)
         = 1 * QtySteps(cargo) * BlendCount * BlendCount
    /\ qtyValues # <<>> => QtySteps(cargo) = Len(qtyValues)
    /\ calcCount <= CombosBeforeFilters(<<vessel>>, <<cargo>>)

\* C17: for a cargo without contractual range the quantity axis is the
\* single point of the base quantity and the search space of the pair is
\* exactly 101 x 101 grid points.
C17_SinglePointWithoutRange ==
  (ppc \in {"start", "qty", "blend", "done"} /\ ~cargo.quantityRange.present) =>
    /\ qtyValues # <<>> => qtyValues = <<cargo.cargoQty>>
    /\ CombosBeforeFilters(<<vessel>>, <<cargo>>) = 101 * 101
    /\ calcCount <= 101 * 101
    /\ (PairDone /\ ~result.isNull) =>
         (calcCount = 101 * 101 /\ result.cargoQty = cargo.cargoQty)

\* A completed search of a cargo without range: all 10201 points evaluated.
C17_Witness ==
  /\ PairDone
  /\ ~cargo.quantityRange.present
  /\ qtyValues = <<cargo.cargoQty>>
  /\ ~result.isNull
  /\ calcCount = 10201

\* C18: getWeightFeasibility returns feasible if and only if
\* 0 < cargo quantity <= vessel deadweight; a deadweight <= 0 or a
\* non-finite quantity or deadweight always yields infeasible.
C18_WeightFeasibleIff ==
  fn = "getWeightFeasibility" =>
    LET q == args.cargoQty
        d == args.vesselDwt
    IN /\ ret.status = "feasible" <=>
            /\ IsFinite(q)
            /\ IsFinite(d)
            /\ 0 < q.value
            /\ q.value <= d.value
       /\ (~IsFinite(q) \/ ~IsFinite(d) \/ d.value <= 0) =>
            ret.status = "infeasible"

\* The smaller and the larger bound of the range passed to the range check.
ArgMin == Num(Min2(args.range.min, args.range.max))
ArgMax == Num(Max2(args.range.min, args.range.max))

InTable(from, to) == <<from, to>> \in DOMAIN DistanceMap

\* A leg without table entry is 3000 nm long and flagged as not
\* table-sourced; a leg flagged as table-sourced has the table's distance.
LegProvenance(from, to, nm, known) ==
  /\ ~InTable(from, to) => (nm = 3000 /\ ~known)
  /\ known => (InTable(from, to) /\ nm = DistanceMap[<<from, to>>])

\* C20: in every PairResult a leg (ballast or laden) whose port combination
\* has no entry in the distance table is 3000 nm long and flagged as not
\* table-sourced, and a leg is flagged as table-sourced only when its
\* distance was read from the table.
C20_FallbackDistanceFlagged ==
  (PairDone /\ ~result.isNull) =>
    /\ LegProvenance(vessel.currentPort, cargo.loadPort,
                     result.ballastNm, result.ballastDistanceKnown)
    /\ LegProvenance(cargo.loadPort, cargo.dischargePort,
                     result.ladenNm, result.ladenDistanceKnown)

\* clamp(blend, 0, 1) on hundredths
ClampedBlend(t) == IF t < 0 THEN 0 ELSE IF t > 100 THEN 100 ELSE t

\* warranted + (economical - warranted) x t, scaled by 100
Interpolated(warranted, economical, t) ==
  100 * warranted + (economical - warranted) * t

C22_DegenerateInputsGiveZero ==
  /\ fn = "calculateFreight" =>
       LET eff == getEffectiveProfile(args.vessel, args.ballastBlend,
                                      args.ladenBlend)
       IN /\ \A k \in DOMAIN ret : ret[k] \in Int
          /\ eff.speedBallast <= 0 => ret.ballastDays = 0
          /\ eff.speedLaden <= 0 => ret.ladenDays = 0
          /\ args.cargo.loadRate <= 0 => ret.loadportWorkingDays = 0
          /\ args.cargo.dischargeRate <= 0 => ret.disportWorkingDays = 0
          /\ ret.totalDuration <= 0 => ret.tce = 0
  /\ (fn = "evaluateLaycan" /\ args.ballastSpeed <= 0) =>
       /\ ret.ballastDays = 0
       /\ ret.eta = args.departureDate

\* A voyage over 3000 nm at a negative speed, with a negative load rate, a
\* zero discharge rate and a negative total duration.
C22_Witness ==
  /\ fn = "calculateFreight"
  /\ args.ballastNm > 0
  /\ getEffectiveProfile(args.vessel, args.ballastBlend,
                         args.ladenBlend).speedBallast < 0
  /\ args.cargo.loadRate < 0
  /\ args.cargo.dischargeRate = 0
  /\ ret.totalDuration < 0
  /\ ret.tce = 0

\* The laycan of a vessel that cannot move over a positive distance: the ETA
\* is the departure date.
C22_LaycanWitness ==
  /\ fn = "evaluateLaycan"
  /\ args.ballastSpeed <= 0
  /\ args.ballastNm > 0
  /\ ret.eta = args.departureDate

\* The injective maps of rows 1..n to columns 1..m.
RowAssignments(n, m) ==
  {f \in [1..n -> 1..m] : \A a, b \in 1..n : a # b => f[a] # f[b]}

RECURSIVE SelectedCost(_, _, _)
SelectedCost(c, f, i) == IF i = 0 THEN 0 ELSE c[i][f[i]] + SelectedCost(c, f, i - 1)

\* The call of hungarian has returned.
HungDone == hPc = "done"

\* C23: for every cost matrix with at least as many columns as rows,
\* hungarian returns for each row a column index in range, no two rows get
\* the same column, and the sum of the selected costs is the minimum over
\* all assignments of the rows to pairwise distinct columns.
C23_HungarianIsMinimumAssignment ==
  (HungDone /\ hM >= hN) =>
    LET f == [i \in 1..hN |-> hAssignment[i - 1] + 1]
    IN /\ DOMAIN hAssignment = 0..(hN - 1)
       /\ \A i \in 1..hN : f[i] \in 1..hM
       /\ \A a, b \in 1..hN : a # b => f[a] # f[b]
       /\ \A g \in RowAssignments(hN, hM) :
            SelectedCost(hCost, f, hN) <= SelectedCost(hCost, g, hN)
       /\ hAssignment = hungarian(hCost, hN, hM)

\* A 3 x 3 matrix where taking each row's cheapest column would clash, and
\* hungarian has returned.
C23_Witness ==
  /\ HungDone
  /\ hN = 3 /\ hM = 3
  /\ \E a, b \in 1..hN : a # b /\ \E j \in 1..hM :
       /\ \A o \in 1..hM : o # j => hCost[a][j] < hCost[a][o]
       /\ \A o \in 1..hM : o # j => hCost[b][j] < hCost[b][o]

\* Most do-while iterations of one call: in each of the n rows, the first
\* loop marks a new column of 0..m used in every iteration and the second
\* walks back over marked columns.
IterationBound == hN * 2 * (hM + 1)

\* C24: hungarian terminates on every matrix it is called with: each call
\* site passes at most as many rows as columns (the chat route pads to
\* max(vessels, cargos) columns, the committed stage runs only when the
\* committed cargos do not exceed the selected vessels, the market stage
\* has market cargos + remaining vessels columns), and both do-while loops
\* of every row finish.
C24_HungarianTerminates ==
  /\ hN <= hM
  /\ hPc \in {"idle", "row", "search", "augment", "done"}
  /\ hPc = "row" => hI \in 1..(hN + 1)
  /\ hPc \in {"search", "augment"} =>
       /\ hI \in 1..hN
       /\ hState.j0 \in 0..hM
       /\ hIterations < IterationBound
  /\ hIterations <= IterationBound

\* A market-stage call with two rows has returned.
C24_Witness == HungDone /\ hSite = "market" /\ hN = 2

\* The vessels of a combination.
VesselsOf(combo) == {combo[k] : k \in 1..Len(combo)}

\* The plans of a combination: every cargo gets one of its vessels or none
\* (-1), no vessel gets two cargos, no pair used is null, and every
\* committed cargo gets a vessel.
PlansOf(combo) ==
  {f \in [0..(committedCount + marketCount - 1) -> VesselsOf(combo) \cup {-1}] :
     /\ \A a, b \in DOMAIN f : (a # b /\ f[a] # -1) => f[a] # f[b]
     /\ \A c \in DOMAIN f : f[c] # -1 => ~recPairResults[f[c]][c].isNull
     /\ \A c \in 0..(committedCount - 1) : f[c] # -1}

RECURSIVE PlanTotal(_, _)
PlanTotal(f, c) ==
  IF c < 0 THEN 0
  ELSE (IF f[c] = -1 THEN 0 ELSE recPairResults[f[c]][c].adjustedProfit)
       + PlanTotal(f, c - 1)

\* The route has gone through all combinations and replied.
RecReplied == recPc = "done" /\ recReply \in {"no feasible", "recommendation"}

\* The combinations already processed whose committed cargos can all be
\* carried.
ProcessedFeasible ==
  {k \in 1..comboIdx : PlansOf(vesselCombos[k]) # {}}

\* C25: in every portfolio the recommendation route keeps, each committed
\* cargo is assigned to exactly one selected vessel with a non-null pair, no
\* vessel carries more than one cargo, and no cargo is carried by more than
\* one vessel; a combination where some committed cargo cannot get a
\* feasible vessel is discarded; and if all are discarded the route replies
\* that no feasible recommendation exists.
C25_PortfolioIsOneToOne ==
  /\ recPc \in {"combos", "done"} /\ ~bestPortfolio.isNull =>
       LET a == bestPortfolio.assignments
       IN /\ \A c \in 0..(committedCount - 1) :
               Cardinality({k \in DOMAIN a : a[k].cargo = c}) = 1
          /\ \A k \in DOMAIN a :
               /\ a[k].vessel \in VesselsOf(bestPortfolio.vessels)
               /\ a[k].cargo \in 0..(committedCount + marketCount - 1)
               /\ ~recPairResults[a[k].vessel][a[k].cargo].isNull
          /\ \A k, l \in DOMAIN a :
               k # l => a[k].vessel # a[l].vessel /\ a[k].cargo # a[l].cargo
          /\ PlansOf(bestPortfolio.vessels) # {}
  /\ recPc \in {"combos", "done"} =>
       evaluatedPortfolios <= Cardinality(ProcessedFeasible)
  /\ RecReplied =>
       (recReply = "no feasible" <=> evaluatedPortfolios = 0)

\* A recommendation with a committed and a market cargo assigned, found
\* after at least one combination was discarded.
C25_Witness ==
  /\ recReply = "recommendation"
  /\ evaluatedPortfolios < Len(vesselCombos)
  /\ \E k, l \in DOMAIN bestPortfolio.assignments :
       /\ bestPortfolio.assignments[k].cargo < committedCount
       /\ bestPortfolio.assignments[l].cargo >= committedCount

\* Every committed cargo fails on every combination: no feasible reply.
C25_NoFeasibleWitness ==
  /\ recReply = "no feasible"
  /\ committedCount > 0
  /\ comboIdx > 1

\* The plans of all combinations.
AllPlans ==
  UNION {{<<k, f>> : f \in PlansOf(vesselCombos[k])} : k \in 1..Len(vesselCombos)}

\* C26: the best total adjusted profit of the recommendation route is the
\* maximum over every choice of the requested number of vessels and every
\* one-to-one assignment in which all committed cargos are carried by
\* selected vessels with non-null pairs and market cargos are optional:
\* solving the committed cargos first and the market cargos on the remaining
\* vessels loses nothing against solving both jointly.
C26_TwoStageIsJointMaximum ==
  RecReplied =>
    /\ recReply = "recommendation" <=> AllPlans # {}
    /\ recReply = "recommendation" =>
         \A kf \in AllPlans :
           PlanTotal(kf[2], committedCount + marketCount - 1)
             <= bestPortfolio.totalProfit

\* C27: in every PairResult of the grid search the loaded quantity equals
\* the chosen cargo quantity (the filters guarantee the vessel loads all of
\* it), so the gross freight is the chosen quantity times the freight rate.
C27_LoadsChosenQuantity ==
  (PairDone /\ ~result.isNull) =>
    /\ result.loadedQty = result.cargoQty
    /\ result.freightGross
         = (result.cargoQty * cargo.freightRate.value) \div 100

\* C28: on the manual page, after any sequence of addVoyage and removeVoyage
\* all voyages have pairwise distinct ids, so that updateVoyage,
\* calculateVoyage and removeVoyage with an id affect exactly one voyage.
C28_VoyageIdsDistinct ==
  \A i, j \in DOMAIN voyages : i # j => voyages[i].id # voyages[j].id

\* C29: on the manual page a stored voyage result is never stale: every
\* voyage holding a result holds exactly what calculateVoyage would compute
\* from the current inputs (voyage fields, bunker prices, port delay), and
\* so does the portfolio total.
C29_ResultsAreCurrent ==
  /\ \A i \in DOMAIN voyages :
       ~voyages[i].result.isUndefined =>
         voyages[i] = CalculatedVoyage(voyages[i])
  /\ manualTotalProfit
       = ProfitSum([i \in DOMAIN voyages |->
                      IF voyages[i].result.isUndefined THEN voyages[i]
                      ELSE CalculatedVoyage(voyages[i])], Len(voyages))

\* C30: each of the chat page and the recommendation page has at most one
\* request in flight, and has one exactly while its loading is true, so
\* that loading is false again once the request has settled, whether it
\* succeeded or failed; sendMessage, resetChat and getRecommendation change
\* nothing when they are called while loading is true.
C30_OneRequestInFlight ==
  /\ [](/\ chatInFlight <= 1
        /\ recPageInFlight <= 1
        /\ chatLoading <=> chatInFlight = 1
        /\ recPageLoading <=> recPageInFlight = 1)
  /\ [][/\ (chatLoading /\ (sendMessage \/ resetChat)) => UNCHANGED pageVars
        /\ (recPageLoading /\ getRecommendation) => UNCHANGED pageVars
        /\ ChatSettles => ~chatLoading'
        /\ RecommendationSettles => ~recPageLoading']_vars

\* Both pages wait for a request; the chat page has had a request settle
\* before, and its textarea holds a message that a submit would send.
C30_Witness ==
  /\ chatLoading /\ chatInFlight = 1
  /\ Len(chatMessages) >= 3
  /\ trim(chatInput) # <<>>
  /\ recPageLoading /\ recPageInFlight = 1

====
